---- MODULE Spec2Model ----
(***************************************************************************)
(* Shared-device session servers of labctrl-toolbox: the linear stage      *)
(* server (HTTP surface, persistent channel, connection manager and the    *)
(* broadcast of state updates), and the parameter setters of the sensor    *)
(* and spectrometer controllers.                                           *)
(*                                                                         *)
(* Physical values are doubles in the source.  A double is modelled as a   *)
(* decimal and the side on which the double lies from it:                  *)
(* [m |-> mantissa, e |-> exponent, err |-> error] is m * 10^e + err * u,  *)
(* u a positive amount below the resolution of every decimal in the model. *)
(* err orders these offsets: -2 < -1 < 0 < 1 < 2.  The unit conversion     *)
(* table multiplies by a power of ten, which adds to e.                    *)
(***************************************************************************)
EXTENDS Integers, Sequences, FiniteSets, TLC

VARIABLES
    sc,                 \* LinearStageController: position, velocity, acceleration, command_id
    ser_writes,         \* frames written to the (mock) serial transport of the stage
    ser_response,       \* what the stage answers to a command
    last_call,          \* observer: the most recent call of set_position
    http_response,      \* the response of the most recent HTTP request
    wsid_i,             \* WebSocketConnectionManager.wsid_i
    active_connections, \* WebSocketConnectionManager.active_connections: wsid -> item
    ws_pc,              \* position of each ws_endpoint task
    ws_wsid,            \* local variable wsid of each ws_endpoint task (0 is None)
    ws_item,            \* the token data a socket authenticated with (0 is none yet)
    ws_first,           \* observer: the first message each connection sent
    ws_log,             \* observer: the operations each session had carried out
    peer,               \* state of each socket as the server's sends find it
    inbox,              \* messages delivered to the client of each socket
    close_code,         \* close code the server ended each connection with (0: none)
    ws_pending,         \* the message an endpoint task is about to send
    tasks,              \* broadcast coroutines scheduled on the event loop
    sensor,             \* SensorController's stored sampling intervals
    sensor_writes,      \* frames written to the sensor transport
    spectrometer,       \* SpectrometerController's stored parameters
    device,             \* which device's server process this run is
    sensor_last,        \* observer: the most recent call into SensorController
    continuous_sampling_mode_running,  \* SensorController's flag
    continuous_sampling_mode_thread,   \* the Stream Reader thread and its position
    received_packets,   \* framer.received_packets: frames received and not yet taken
    burst,              \* the mocked sensor reports samples
    sample_i,           \* samples the mocked sensor has reported
    stop_pc,            \* position of stop_continuous_sampling_mode in its caller
    send_switch,        \* WSContinuousSamplingResultSender.send_switch
    reader_frame,       \* the frame the Stream Reader took last
    stopped,            \* observer: stop has returned and no start succeeded since
    authentication_watchdog_running,  \* RemoteLinearStage's flag of its authentication watchdog
    stage_state_watchdog_running,     \* RemoteLinearStage's flag of its state watchdog
    websocket_handler_running,        \* RemoteLinearStage's flag of its channel handler
    authentication_watchdog_thread,   \* position of the authentication watchdog thread
    stage_state_watchdog_thread,      \* position of the state watchdog thread
    websocket_handler_thread,         \* position of the channel handler thread
    pending_reauthentication,         \* RemoteLinearStage.pending_reauthentication
    websocket_connection,             \* the connection commands are sent on (0 is None)
    websocket_command_status,         \* cid -> result of the command, "None" while pending
    websocket_command_id,             \* the last cid the client generated
    links,              \* the connections connect(endpoint) has opened, in order
    close_pc,           \* position of the caller of RemoteLinearStage.close
    call,               \* the caller of websocket_command and its position
    results_handled,    \* observer: the calls whose result message the handler has stored
    command_threads,    \* threads that call websocket_command without a cid, and their position
    client_position,    \* RemoteLinearStage.position: the client's copy of the position
    poll_reply          \* local variable r of the state watchdog (0 before a reply)

vars == <<sc, ser_writes, ser_response, last_call, http_response, wsid_i,
          active_connections, ws_pc, ws_wsid, ws_item, ws_first, ws_log, peer, inbox,
          close_code, ws_pending, tasks, sensor, sensor_writes, spectrometer, device,
          sensor_last, continuous_sampling_mode_running,
          continuous_sampling_mode_thread, received_packets, burst, sample_i, stop_pc,
          send_switch, reader_frame, stopped, authentication_watchdog_running,
          stage_state_watchdog_running, websocket_handler_running,
          authentication_watchdog_thread, stage_state_watchdog_thread,
          websocket_handler_thread, pending_reauthentication, websocket_connection,
          websocket_command_status, websocket_command_id, links, close_pc, call,
          results_handled, command_threads, client_position, poll_reply>>

stage_vars == <<sc, ser_writes, ser_response, last_call>>
ws_vars == <<wsid_i, active_connections, ws_pc, ws_wsid, ws_item, ws_first, ws_log, peer,
             inbox, close_code, ws_pending>>
streaming_vars == <<continuous_sampling_mode_running, continuous_sampling_mode_thread,
                    received_packets, burst, sample_i, stop_pc, send_switch,
                    reader_frame, stopped>>
watchdog_vars == <<authentication_watchdog_running, stage_state_watchdog_running,
                   authentication_watchdog_thread, stage_state_watchdog_thread,
                   pending_reauthentication>>
channel_vars == <<websocket_handler_running, websocket_handler_thread,
                  websocket_connection, links>>
mirror_vars == <<command_threads, client_position, poll_reply>>
command_vars == <<websocket_command_status, websocket_command_id, call, results_handled,
                  mirror_vars>>
client_vars == <<watchdog_vars, channel_vars, command_vars, close_pc>>
other_device_vars == <<sensor, sensor_writes, spectrometer, device, client_vars,
                       sensor_last, streaming_vars>>

----------------------------------------------------------------------------
(* Bounds of the model *)

\* soft limits of every parameter are -MaxValue .. MaxValue
MaxValue == 2
\* commands the stage controller may send in one run
MaxCommands == 3
\* client sockets that may connect in one run
MaxSockets == 2
\* state updates that may be published in one run
MaxUpdates == 2

\* the physical length of a step, in StepUnit
StepValue == 10

----------------------------------------------------------------------------
(* Result codes: LinearStageActionResult, SensorActionResult,
   SpectrometerActionResult *)

OK == "OK"
ERROR_GENERIC == "error_generic"
WARN_NO_ACTION == "warn_no_action"
SOFT_LIMIT_EXCEEDED == "soft_limit_exceeded"
RESPONSE_VALIDATION_FAILURE == "response_validation_failure"
DEVICE_ERROR == "device_error"
SERIAL_RW_FAILURE == "serial_RW_failure"
INVALID_ACTION == "invalid_action"

\* UserAccessLevel; 0 stands for a token that does not validate
readonly == 1
standard == 2
advanced == 3

----------------------------------------------------------------------------
(* Quantity and units *)

StageDisplacementUnit == {"nm", "um", "mm", "m"}
StageVelocityUnit == {"nm/s", "um/s", "mm/s", "m/s"}
StageAccelerationUnit == {"nm/(s^2)", "um/(s^2)", "mm/(s^2)", "m/(s^2)"}

\* 10^n for n >= 0
RECURSIVE Pow10(_)
Pow10(n) ==
    IF n = 0 THEN 1 ELSE 10 * Pow10(n - 1)

\* the offsets a double may have from the decimal it stands for
Errors == {0 - 2, 0 - 1, 0, 1, 2}

\* the double a product rounds to: a product that is not a whole number is
\* not a double in general and lands off it by error; whole numbers are exact
rounded(quantity, error) ==
    IF quantity.e < 0 /\ quantity.m # 0 THEN [quantity EXCEPT !.err = error] ELSE quantity

\* the rules table of UnitConverter: the power of ten each lambda multiplies by
rules ==
    [p \in (StageDisplacementUnit \X StageDisplacementUnit) |->
        CASE p = <<"nm", "nm">> -> 0  [] p = <<"nm", "um">> -> -3
          [] p = <<"nm", "mm">> -> -6 [] p = <<"nm", "m">> -> -9
          [] p = <<"um", "nm">> -> 3  [] p = <<"um", "um">> -> 0
          [] p = <<"um", "mm">> -> -3 [] p = <<"um", "m">> -> -6
          [] p = <<"mm", "nm">> -> 6  [] p = <<"mm", "um">> -> 3
          [] p = <<"mm", "mm">> -> 0  [] p = <<"mm", "m">> -> -3
          [] p = <<"m", "nm">> -> 9   [] p = <<"m", "um">> -> 6
          [] p = <<"m", "mm">> -> 3   [] p = <<"m", "m">> -> 0]
    @@
    [p \in (StageVelocityUnit \X StageVelocityUnit) |->
        CASE p = <<"nm/s", "nm/s">> -> 0  [] p = <<"nm/s", "um/s">> -> -3
          [] p = <<"nm/s", "mm/s">> -> -6 [] p = <<"nm/s", "m/s">> -> -9
          [] p = <<"um/s", "nm/s">> -> 3  [] p = <<"um/s", "um/s">> -> 0
          [] p = <<"um/s", "mm/s">> -> -3 [] p = <<"um/s", "m/s">> -> -6
          [] p = <<"mm/s", "nm/s">> -> 6  [] p = <<"mm/s", "um/s">> -> 3
          [] p = <<"mm/s", "mm/s">> -> 0  [] p = <<"mm/s", "m/s">> -> -3
          [] p = <<"m/s", "nm/s">> -> 9   [] p = <<"m/s", "um/s">> -> 6
          [] p = <<"m/s", "mm/s">> -> 3   [] p = <<"m/s", "m/s">> -> 0]
    @@
    [p \in (StageAccelerationUnit \X StageAccelerationUnit) |->
        CASE p = <<"nm/(s^2)", "nm/(s^2)">> -> 0  [] p = <<"nm/(s^2)", "um/(s^2)">> -> -3
          [] p = <<"nm/(s^2)", "mm/(s^2)">> -> -6 [] p = <<"nm/(s^2)", "m/(s^2)">> -> -9
          [] p = <<"um/(s^2)", "nm/(s^2)">> -> 3  [] p = <<"um/(s^2)", "um/(s^2)">> -> 0
          [] p = <<"um/(s^2)", "mm/(s^2)">> -> -3 [] p = <<"um/(s^2)", "m/(s^2)">> -> -6
          [] p = <<"mm/(s^2)", "nm/(s^2)">> -> 6  [] p = <<"mm/(s^2)", "um/(s^2)">> -> 3
          [] p = <<"mm/(s^2)", "mm/(s^2)">> -> 0  [] p = <<"mm/(s^2)", "m/(s^2)">> -> -3
          [] p = <<"m/(s^2)", "nm/(s^2)">> -> 9   [] p = <<"m/(s^2)", "um/(s^2)">> -> 6
          [] p = <<"m/(s^2)", "mm/(s^2)">> -> 3   [] p = <<"m/(s^2)", "m/(s^2)">> -> 0]

\* UnitConverter.convert: look the rule up and apply it to the quantity
convert(quantity, unit_from, unit_to) ==
    [m |-> quantity.m, e |-> quantity.e + rules[<<unit_from, unit_to>>],
     err |-> quantity.err]

\* a / b truncated toward zero, b > 0: what int() does to a quotient
TruncDiv(a, b) ==
    IF a >= 0 THEN a \div b ELSE 0 - ((0 - a) \div b)

\* is the decimal x a whole multiple of step_value
Divides(x, step_value) ==
    IF x.e >= 0
    THEN (x.m * Pow10(x.e)) % step_value = 0
    ELSE x.m % (step_value * Pow10(0 - x.e)) = 0

\* int(x / step_value) for a double x and a positive integer step_value: the
\* quotient truncated toward zero.  When the decimal of x is a whole multiple
\* n of step_value, a double on the zero side of it gives the quotient just
\* inside n, which truncates to the integer next to n toward zero.
int_div(x, step_value) ==
    LET n == IF x.e >= 0
             THEN TruncDiv(x.m * Pow10(x.e), step_value)
             ELSE TruncDiv(x.m, step_value * Pow10(0 - x.e))
    IN CASE Divides(x, step_value) /\ n > 0 /\ x.err < 0 -> n - 1
         [] Divides(x, step_value) /\ n < 0 /\ x.err > 0 -> n + 1
         [] OTHER -> n

\* n * step_value as a decimal
times_step(n, step_value) ==
    [m |-> n * step_value, e |-> 0, err |-> 0]

----------------------------------------------------------------------------
(* hardware configuration of the stage: config.parameter.* *)

minimum == 0 - MaxValue
maximum == MaxValue
StepUnit == "um"
VelocityStepUnit == "um/s"
AccelerationStepUnit == "um/(s^2)"
default_value == 0

----------------------------------------------------------------------------
(* LinearStageController.  Its methods run to completion without yielding,
   so each is an operator from a world w = [sc, writes, updates, last] to
   the world after the call and the result returned:
     w.sc       the controller's fields
     w.writes   frames written to the transport
     w.updates  the updates handed to update_hook.handle_update, in order
     w.last     the most recent set_position call (observer)            *)

NoRequest == [value |-> [m |-> 0, e |-> 0, err |-> 0], unit |-> ""]

Call(op, target, result, request) ==
    [op |-> op, target |-> target, result |-> result, request |-> request]

NoCall == Call("none", 0, "", NoRequest)

World == [sc |-> sc, writes |-> ser_writes, updates |-> <<>>, last |-> last_call]

Ret(w, result) == [w |-> w, result |-> result]

\* LinearStageController.command: one frame is written and one reply, which
\* is ser_response, is read and returned; no caller inspects it
command(w, s) ==
    [w EXCEPT !.sc.command_id = @ + 1, !.writes = @ + 1]

\* variant: no value is ever reported identical
compare_never_identical(value_before, value_after) ==
    FALSE

compare_identical_and_warn_no_action(value_before, value_after) ==
    value_before = value_after

\* variant: the lower limit is not checked
check_value_below_maximum(value, lo, hi) ==
    IF value > hi THEN FALSE ELSE TRUE

\* variant: no limit is checked
check_value_always_within(value, lo, hi) ==
    TRUE

check_value_within_limits(value, lo, hi) ==
    IF (value > hi) \/ (value < lo) THEN FALSE ELSE TRUE

\* the update_hook call at the end of a setter
handle_update(w, update) ==
    IF w.sc.update_hook # "None"
    THEN [w EXCEPT !.updates = Append(@, update)]
    ELSE w

get_position(w) == w.sc.position

\* variant: the command is sent and the update published, the field is not assigned
set_position_without_assignment(w, position) ==
    IF ~check_value_within_limits(position, minimum, maximum)
    THEN Ret([w EXCEPT !.last = Call("set_position", position, SOFT_LIMIT_EXCEEDED,
                                      NoRequest)],
             SOFT_LIMIT_EXCEEDED)
    ELSE LET result == IF compare_identical_and_warn_no_action(w.sc.position, position)
                       THEN WARN_NO_ACTION ELSE OK
             w1 == command(w, [cmd |-> "MOVEABS"])
             w2 == [w1 EXCEPT !.last = Call("set_position", position, result, NoRequest)]
         IN Ret(handle_update(w2, [name |-> "position", value |-> position]), result)

set_position(w, position) ==
    IF ~check_value_within_limits(position, minimum, maximum)
    THEN Ret([w EXCEPT !.last = Call("set_position", position, SOFT_LIMIT_EXCEEDED,
                                      NoRequest)],
             SOFT_LIMIT_EXCEEDED)
    ELSE LET result == IF compare_identical_and_warn_no_action(w.sc.position, position)
                       THEN WARN_NO_ACTION ELSE OK
             abs_pos_in_mm == convert(times_step(position, StepValue), StepUnit, "mm")
             speed_in_mm_s == convert([m |-> w.sc.velocity, e |-> 0, err |-> 0],
                                      VelocityStepUnit, "mm/s")
             w1 == command(w, [cmd |-> "MOVEABS", pos |-> abs_pos_in_mm,
                               speed |-> speed_in_mm_s])
             w2 == [w1 EXCEPT !.sc.position = position,
                              !.last = Call("set_position", position, result, NoRequest)]
         IN Ret(handle_update(w2, [name |-> "position", value |-> position]), result)

\* rounding: the error of the double that position * step * 1eN rounds to
get_absolute_position(w, unit, rounding) ==
    [value |-> rounded(convert(times_step(w.sc.position, StepValue), StepUnit, unit),
                       rounding),
     unit |-> unit]

set_absolute_position(w, abs_pos, unit) ==
    LET target_pos_value == convert(abs_pos, unit, StepUnit)
        r == set_position(w, int_div(target_pos_value, StepValue))
    IN Ret([r.w EXCEPT !.last = Call("set_absolute_position", r.w.last.target,
                                     r.w.last.result, [value |-> abs_pos, unit |-> unit])],
           r.result)

get_velocity(w) == w.sc.velocity

set_velocity(w, target_value) ==
    IF ~check_value_within_limits(target_value, minimum, maximum)
    THEN Ret(w, SOFT_LIMIT_EXCEEDED)
    ELSE LET result == IF compare_identical_and_warn_no_action(w.sc.velocity, target_value)
                       THEN WARN_NO_ACTION ELSE OK
             w1 == [w EXCEPT !.sc.velocity = target_value]
         IN Ret(handle_update(w1, [name |-> "velocity", value |-> target_value]), result)

set_physical_velocity(w, velocity, unit) ==
    LET target_value == convert(velocity, unit, VelocityStepUnit)
    IN set_velocity(w, int_div(target_value, StepValue))

get_acceleration(w) == w.sc.acceleration

set_acceleration(w, target_value) ==
    IF ~check_value_within_limits(target_value, minimum, maximum)
    THEN Ret(w, SOFT_LIMIT_EXCEEDED)
    ELSE LET result == IF compare_identical_and_warn_no_action(w.sc.acceleration, target_value)
                       THEN WARN_NO_ACTION ELSE OK
             w1 == [w EXCEPT !.sc.acceleration = target_value]
         IN Ret(handle_update(w1, [name |-> "acceleration", value |-> target_value]), result)

set_physical_acceleration(w, acceleration, unit) ==
    LET target_value == convert(acceleration, unit, AccelerationStepUnit)
    IN set_acceleration(w, int_div(target_value, StepValue))

\* StageOperation fields: [kind |-> "None"], [kind |-> "int", value |-> n] or
\* [kind |-> "physical", value |-> decimal, unit |-> u]
None == [kind |-> "None"]
Logical(n) == [kind |-> "int", value |-> n]
Physical(x, u) == [kind |-> "physical", value |-> x, unit |-> u]

\* an arm that lets a warning pass: all_ok stays unless the result is an error
arm_passing_warnings(st, r) ==
    [w |-> r.w, all_ok |-> st.all_ok /\ r.result \in {OK, WARN_NO_ACTION}]

\* the end of one isinstance arm: if result is not OK: all_ok = False
arm(st, r) ==
    [w |-> r.w, all_ok |-> st.all_ok /\ r.result = OK]

stage_operation(w, operation) ==
    LET s0 == [w |-> w, all_ok |-> TRUE]
        s1 == IF operation.acceleration.kind = "int"
              THEN arm(s0, set_acceleration(s0.w, operation.acceleration.value))
              ELSE s0
        s2 == IF operation.acceleration.kind = "physical"
              THEN arm(s1, set_physical_acceleration(s1.w, operation.acceleration.value,
                                                     operation.acceleration.unit))
              ELSE s1
        s3 == IF operation.velocity.kind = "int"
              THEN arm(s2, set_velocity(s2.w, operation.velocity.value))
              ELSE s2
        s4 == IF operation.velocity.kind = "physical"
              THEN arm(s3, set_physical_velocity(s3.w, operation.velocity.value,
                                                 operation.velocity.unit))
              ELSE s3
        s5 == IF operation.position.kind = "int"
              THEN arm(s4, set_position(s4.w, operation.position.value))
              ELSE s4
        s6 == IF operation.position.kind = "physical"
              THEN arm(s5, set_absolute_position(s5.w, operation.position.value,
                                                 operation.position.unit))
              ELSE s5
    IN Ret(s6.w, IF s6.all_ok THEN OK ELSE ERROR_GENERIC)

----------------------------------------------------------------------------
(* Auth (auth.py): a token is its access level, 0 when it does not validate *)

Tokens == 0 .. advanced

\* validate_access_token / validate_token_ws: does the token decode and verify
validate_token(token) ==
    token # 0

\* check_access_level / check_access_level_ws: is the level sufficient
check_access_level(access_level, required) ==
    access_level >= required

----------------------------------------------------------------------------
(* Event loop: WSDeviceStateUpdateSender.handle_update schedules one
   broadcast coroutine per update with run_coroutine_threadsafe and does not
   wait for it.  A task record:
     message   the update
     pc        "scheduled", "sending" (suspended in await send_json), "done"
               or "raised" (the coroutine ended with exception exc)
     todo      the rest of the snapshot list(active_connections.keys())
     cur       the wsid and socket of the send being awaited
     at_call   observer: the wsids registered when the update was published
     delivered observer: the wsids the update was sent to, in order *)

Sockets == 1 .. MaxSockets

NewTask(update) ==
    [message |-> update, pc |-> "scheduled", todo |-> <<>>, cur |-> 0, sock |-> 0,
     exc |-> "", at_call |-> DOMAIN active_connections, delivered |-> <<>>]

RECURSIVE NewTasks(_)
NewTasks(updates) ==
    IF updates = <<>> THEN <<>>
    ELSE <<NewTask(Head(updates))>> \o NewTasks(Tail(updates))

\* the controller call r = [w, result] takes effect
Commit(r) ==
    /\ r.w.sc.command_id <= MaxCommands
    /\ Len(tasks) + Len(r.w.updates) <= MaxUpdates
    /\ sc' = r.w.sc
    /\ ser_writes' = r.w.writes
    /\ last_call' = r.w.last
    /\ tasks' = tasks \o NewTasks(r.w.updates)
    /\ UNCHANGED ser_response

Msg(type, name, value, id) ==
    [type |-> type, name |-> name, value |-> value, id |-> id]

UpdateMsg(update) == Msg("update", update.name, update.value, 0)

----------------------------------------------------------------------------
(* HTTP surface of the stage server (main.py).  Every handler is an async
   function without an await in its body: one atomic step. *)

Response(req, status, result, value) ==
    [req |-> req, status |-> status, result |-> result, value |-> value, token |-> 0]

\* observer: the token the answered request carried
By(token, response) == [response EXCEPT !.token = token]

\* a response body without a quantity
NoValue == [value |-> [m |-> 0, e |-> 0, err |-> 0], unit |-> ""]

\* LogicalQuantitiy(value=n)
LogicalQuantity(n) == [value |-> [m |-> n, e |-> 0, err |-> 0], unit |-> "step"]

\* the Depends(validate_access_token) and check_access_level prologue
Denied(req, token, required) ==
    /\ ~(validate_token(token) /\ check_access_level(token, required))
    /\ http_response' = By(token, Response(req, IF validate_token(token) THEN 403 ELSE 401,
                                               "", NoValue))
    /\ UNCHANGED <<stage_vars, tasks>>

Granted(token, required) ==
    validate_token(token) /\ check_access_level(token, required)

\* logical values a client may send: the limits, one beyond each, and the default
PositionInputs == {minimum - 1, minimum, default_value, maximum, maximum + 1}

DisplacementInputs ==
    {[value |-> [m |-> k * StepValue + d, e |-> ex[2], err |-> 0], unit |-> ex[1]] :
        k \in PositionInputs, d \in {0, StepValue \div 2},
        ex \in {<<"um", 0>>, <<"mm", -3>>}}

http_get_position(token) ==
    /\ \/ Denied("GET /position", token, readonly)
       \/ /\ Granted(token, readonly)
          /\ http_response' = By(token, Response("GET /position", 200, "",
                                                 LogicalQuantity(sc.position)))
          /\ UNCHANGED <<stage_vars, tasks>>
    /\ UNCHANGED <<ws_vars, other_device_vars>>

\* POST /: stage_operation
http_stage_operation(token, operation) ==
    /\ \/ Denied("POST /", token, standard)
       \/ /\ Granted(token, standard)
          /\ LET r == stage_operation(World, operation)
             IN /\ Commit(r)
                /\ http_response' = By(token, Response("POST /", 200, r.result, NoValue))
    /\ UNCHANGED <<ws_vars, other_device_vars>>

\* variant: the position is set for whoever asks
http_set_position_unchecked(token, target) ==
    /\ LET r == set_position(World, target)
       IN /\ Commit(r)
          /\ http_response' = By(token, Response("POST /position", 200, r.result, NoValue))
    /\ UNCHANGED <<ws_vars, other_device_vars>>

http_set_position(token, target) ==
    /\ \/ Denied("POST /position", token, standard)
       \/ /\ Granted(token, standard)
          /\ LET r == set_position(World, target)
             IN /\ Commit(r)
                /\ http_response' = By(token, Response("POST /position", 200, r.result,
                                                       NoValue))
    /\ UNCHANGED <<ws_vars, other_device_vars>>

http_get_absolute_position(token) ==
    /\ \/ Denied("GET /absolute_position", token, readonly)
       \/ /\ Granted(token, readonly)
          /\ \E rounding \in Errors :
                http_response' = By(token, Response("GET /absolute_position", 200, "",
                                          get_absolute_position(World, "mm", rounding)))
          /\ UNCHANGED <<stage_vars, tasks>>
    /\ UNCHANGED <<ws_vars, other_device_vars>>

http_set_absolute_position(token, operation) ==
    /\ \/ Denied("POST /absolute_position", token, standard)
       \/ /\ Granted(token, standard)
          /\ LET r == set_absolute_position(World, operation.value, operation.unit)
             IN /\ Commit(r)
                /\ http_response' = By(token, Response("POST /absolute_position", 200,
                                                       r.result, NoValue))
    /\ UNCHANGED <<ws_vars, other_device_vars>>

----------------------------------------------------------------------------
(* Persistent channel of the stage server: ws_endpoint (main.py) running
   WebSocketConnectionManager.connect and WSApplicationProtocol.run (ws.py).
   ws_pc[s]:
     "new"              no connection yet
     "connect_receive"  accepted, suspended in the first receive_json
     "connect_send"     token validated, suspended in send_json(auth_result)
     "run_receive"      registered, suspended in receive_json of run()
     "run_send"         operation done, suspended in send_json(response)
     "error_send"       suspended in send_json({"error": ...}) of a handler
     "ended"            ws_endpoint has returned or raised
   peer[s]: "open", "closed_ok" (the client closed normally: sends raise
   ConnectionClosedOK), "closed_error" (the connection broke: sends raise
   ConnectionClosedError), "server_closed" (the server closed it). *)

WS_1008_POLICY_VIOLATION == 1008
WS_1011_INTERNAL_ERROR == 1011

\* text that is not JSON, JSON that is not an object (a list, a string, a
\* number), or an object carrying a token (0: no token, or one that fails)
FirstMessages ==
    {[kind |-> "not_json", token |-> 0], [kind |-> "not_object", token |-> 0]}
        \cup {[kind |-> "object", token |-> t] : t \in Tokens}

NoFirstMessage == [kind |-> "none", token |-> 0]

\* what a client may send once authenticated
OperationMessages ==
    {[kind |-> "not_json"], [kind |-> "invalid"]}
        \cup {[kind |-> "operation", id |-> i,
               operation |-> [acceleration |-> None, velocity |-> None,
                              position |-> Logical(v)]] :
                 i \in {0, 7}, v \in PositionInputs}

\* results a socket may be sent in one run
MaxResults == 1

\* variant: removing one session drops every record
disconnect_everyone(connections, wsid) ==
    IF wsid \in DOMAIN connections THEN <<>> ELSE connections

\* WebSocketConnectionManager.disconnect
disconnect(connections, wsid) ==
    IF wsid \in DOMAIN connections
    THEN [w \in DOMAIN connections \ {wsid} |-> connections[w]]
    ELSE connections

\* ws_endpoint leaves: the finally clause, then the close the exception asks for
\* variant: the endpoint ends without ws_mgr.disconnect
EndConnectionWithoutDisconnect(s, code) ==
    /\ ws_pc' = [ws_pc EXCEPT ![s] = "ended"]
    /\ UNCHANGED active_connections
    /\ close_code' = [close_code EXCEPT ![s] = IF peer[s] = "open" THEN code ELSE 0]
    /\ peer' = [peer EXCEPT ![s] = IF peer[s] = "open" /\ code # 0
                                   THEN "server_closed" ELSE @]

EndConnection(s, code) ==
    /\ ws_pc' = [ws_pc EXCEPT ![s] = "ended"]
    /\ active_connections' = IF ws_wsid[s] = 0 THEN active_connections
                             ELSE disconnect(active_connections, ws_wsid[s])
    /\ close_code' = [close_code EXCEPT ![s] = IF peer[s] = "open" THEN code ELSE 0]
    /\ peer' = [peer EXCEPT ![s] = IF peer[s] = "open" /\ code # 0
                                   THEN "server_closed" ELSE @]

\* await websocket.accept()
ws_accept(s) ==
    /\ ws_pc[s] = "new"
    /\ \A t \in Sockets : t < s => ws_pc[t] # "new"
    /\ ws_pc' = [ws_pc EXCEPT ![s] = "connect_receive"]
    /\ UNCHANGED <<stage_vars, http_response, tasks, wsid_i, active_connections, ws_wsid,
                   ws_item, ws_first, ws_log, peer, inbox, close_code, ws_pending,
                   other_device_vars>>

\* the client closes the connection, or the connection breaks
client_close(s, how) ==
    /\ ws_pc[s] \notin {"new", "ended"}
    /\ peer[s] = "open"
    /\ peer' = [peer EXCEPT ![s] = how]
    /\ UNCHANGED <<stage_vars, http_response, tasks, wsid_i, active_connections, ws_pc,
                   ws_wsid, ws_item, ws_first, ws_log, inbox, close_code, ws_pending,
                   other_device_vars>>

\* a receive_json resumes with WebSocketDisconnect: caught by ws_endpoint
ws_receive_disconnect(s) ==
    /\ ws_pc[s] \in {"connect_receive", "run_receive"}
    /\ peer[s] # "open"
    /\ EndConnection(s, 0)
    /\ UNCHANGED <<stage_vars, http_response, tasks, wsid_i, ws_wsid, ws_item, ws_first,
                   ws_log, inbox, ws_pending, other_device_vars>>

\* connect(): the first message arrives
ws_connect_receive(s, msg) ==
    /\ ws_pc[s] = "connect_receive"
    /\ peer[s] = "open"
    /\ ws_first' = [ws_first EXCEPT ![s] = msg]
    /\ CASE msg.kind = "not_json" ->
              \* JSONDecodeError: WebSocketException(1008)
              /\ EndConnection(s, WS_1008_POLICY_VIOLATION)
              /\ UNCHANGED ws_item
         [] msg.kind = "not_object" ->
              \* auth_data.get raises AttributeError: no handler in ws_endpoint
              /\ EndConnection(s, WS_1011_INTERNAL_ERROR)
              /\ UNCHANGED ws_item
         [] msg.kind = "object" /\ ~validate_token(msg.token) ->
              /\ EndConnection(s, WS_1008_POLICY_VIOLATION)
              /\ UNCHANGED ws_item
         [] msg.kind = "object" /\ validate_token(msg.token) ->
              /\ ws_pc' = [ws_pc EXCEPT ![s] = "connect_send"]
              /\ ws_item' = [ws_item EXCEPT ![s] = msg.token]
              /\ UNCHANGED <<active_connections, close_code, peer>>
    /\ UNCHANGED <<stage_vars, http_response, tasks, wsid_i, ws_wsid, ws_log, inbox,
                   ws_pending, other_device_vars>>

\* connect(): send_json(auth_result) returns; the session is registered and
\* run() starts its first receive_json
ws_connect_register(s) ==
    /\ ws_pc[s] = "connect_send"
    /\ peer[s] = "open"
    /\ inbox' = [inbox EXCEPT ![s] = Append(@, Msg("auth_result", "success", 0, 0))]
    /\ wsid_i' = wsid_i + 1
    /\ ws_wsid' = [ws_wsid EXCEPT ![s] = wsid_i + 1]
    /\ active_connections' =
           [w \in DOMAIN active_connections \cup {wsid_i + 1} |->
               IF w = wsid_i + 1 THEN [websocket |-> s, token |-> ws_item[s]]
               ELSE active_connections[w]]
    /\ ws_pc' = [ws_pc EXCEPT ![s] = "run_receive"]
    /\ UNCHANGED <<stage_vars, http_response, tasks, ws_item, ws_first, ws_log, peer, close_code,
                   ws_pending,
                   other_device_vars>>

\* a send_json of the endpoint task finds the socket closed: ConnectionClosedOK
\* is caught by ws_endpoint, ConnectionClosedError is not
ws_send_fails(s) ==
    /\ ws_pc[s] \in {"connect_send", "run_send", "error_send"}
    /\ peer[s] # "open"
    /\ EndConnection(s, 0)
    /\ UNCHANGED <<stage_vars, http_response, tasks, wsid_i, ws_wsid, ws_item, ws_first,
                   ws_log, inbox, ws_pending, other_device_vars>>

CountType(msgs, type) ==
    Cardinality({i \in 1 .. Len(msgs) : msgs[i].type = type})

\* the results a socket has been sent
Answered(s) == CountType(inbox[s], "result")

NoMsg == Msg("none", "", 0, 0)

\* WSApplicationProtocol.run: a message arrives; access check, then the operation
ws_run_receive(s, msg) ==
    /\ ws_pc[s] = "run_receive"
    /\ peer[s] = "open"
    /\ CASE msg.kind = "not_json" ->
              /\ EndConnection(s, WS_1008_POLICY_VIOLATION)
              /\ UNCHANGED <<stage_vars, tasks, ws_pending, ws_log>>
         [] msg.kind # "not_json" /\ ~check_access_level(ws_item[s], standard) ->
              \* AccessLevelException
              /\ ws_pc' = [ws_pc EXCEPT ![s] = "error_send"]
              /\ ws_pending' = [ws_pending EXCEPT
                                  ![s] = Msg("error", "Insufficient Access Level", 0, 0)]
              /\ UNCHANGED <<stage_vars, tasks, active_connections, close_code, peer,
                             ws_log>>
         [] msg.kind = "invalid" /\ check_access_level(ws_item[s], standard) ->
              \* StageOperation(**received) raises ValidationError
              /\ ws_pc' = [ws_pc EXCEPT ![s] = "error_send"]
              /\ ws_pending' = [ws_pending EXCEPT
                                  ![s] = Msg("error", "Invalid Operation", 0, 0)]
              /\ UNCHANGED <<stage_vars, tasks, active_connections, close_code, peer,
                             ws_log>>
         [] msg.kind = "operation" /\ check_access_level(ws_item[s], standard) ->
              LET r == stage_operation(World, msg.operation)
              IN /\ Commit(r)
                 /\ ws_pc' = [ws_pc EXCEPT ![s] = "run_send"]
                 /\ ws_pending' = [ws_pending EXCEPT
                                     ![s] = Msg("result", r.result, 0, msg.id)]
                 /\ ws_log' = [ws_log EXCEPT
                                 ![s] = Append(@, [id |-> msg.id, result |-> r.result])]
                 /\ UNCHANGED <<active_connections, close_code, peer>>
    /\ UNCHANGED <<http_response, wsid_i, ws_wsid, ws_item, ws_first, inbox,
                   other_device_vars>>

\* variant: the response goes to every socket
ws_run_send_to_everyone(s) ==
    /\ ws_pc[s] = "run_send"
    /\ peer[s] = "open"
    /\ inbox' = [t \in Sockets |-> Append(inbox[t], ws_pending[s])]
    /\ ws_pending' = [ws_pending EXCEPT ![s] = NoMsg]
    /\ ws_pc' = [ws_pc EXCEPT ![s] = "run_receive"]
    /\ UNCHANGED <<stage_vars, http_response, tasks, wsid_i, active_connections, ws_wsid,
                   ws_item, ws_first, ws_log, peer, close_code, other_device_vars>>

\* run(): send_json(response) returns and the loop awaits the next message
ws_run_send(s) ==
    /\ ws_pc[s] = "run_send"
    /\ peer[s] = "open"
    /\ inbox' = [inbox EXCEPT ![s] = Append(@, ws_pending[s])]
    /\ ws_pending' = [ws_pending EXCEPT ![s] = NoMsg]
    /\ ws_pc' = [ws_pc EXCEPT ![s] = "run_receive"]
    /\ UNCHANGED <<stage_vars, http_response, tasks, wsid_i, active_connections, ws_wsid,
                   ws_item, ws_first, ws_log, peer, close_code, other_device_vars>>

\* variant: the error is reported and the session goes on
ws_error_send_and_continue(s) ==
    /\ ws_pc[s] = "error_send"
    /\ peer[s] = "open"
    /\ inbox' = [inbox EXCEPT ![s] = Append(@, ws_pending[s])]
    /\ ws_pending' = [ws_pending EXCEPT ![s] = NoMsg]
    /\ ws_pc' = [ws_pc EXCEPT ![s] = "run_receive"]
    /\ UNCHANGED <<stage_vars, http_response, tasks, wsid_i, active_connections, ws_wsid,
                   ws_item, ws_first, ws_log, peer, close_code, other_device_vars>>

\* the except clause's send_json({"error": ...}) returns; WebSocketException(1008)
ws_error_send(s) ==
    /\ ws_pc[s] = "error_send"
    /\ peer[s] = "open"
    /\ inbox' = [inbox EXCEPT ![s] = Append(@, ws_pending[s])]
    /\ ws_pending' = [ws_pending EXCEPT ![s] = NoMsg]
    /\ EndConnection(s, WS_1008_POLICY_VIOLATION)
    /\ UNCHANGED <<stage_vars, http_response, tasks, wsid_i, ws_wsid, ws_item, ws_first, ws_log,
                   other_device_vars>>

----------------------------------------------------------------------------
(* WebSocketConnectionManager.broadcast, one coroutine per task *)

RECURSIVE SetToSeq(_)
\* the keys of the dict in insertion order: wsids are handed out ascending
SetToSeq(S) ==
    IF S = {} THEN <<>>
    ELSE LET x == CHOOSE x \in S : \A y \in S : x <= y
         IN <<x>> \o SetToSeq(S \ {x})

RECURSIVE broadcast_advance(_, _)
\* the loop from the top of an iteration to its await, or to its end
broadcast_advance(t, connections) ==
    IF t.todo = <<>>
    THEN [t EXCEPT !.pc = "done", !.cur = 0, !.sock = 0]
    ELSE IF Head(t.todo) \notin DOMAIN connections
    THEN [t EXCEPT !.pc = "raised", !.exc = "KeyError", !.cur = Head(t.todo), !.sock = 0]
    ELSE IF connections[Head(t.todo)].token # 0
    THEN [t EXCEPT !.pc = "sending", !.cur = Head(t.todo),
                   !.sock = connections[Head(t.todo)].websocket, !.todo = Tail(t.todo)]
    ELSE broadcast_advance([t EXCEPT !.todo = Tail(t.todo)], connections)

\* a broadcast that ended at once, with no session registered when the update
\* was published nor when the coroutine ran: nothing of it is kept
Unobserved(t) ==
    t.pc = "done" /\ t.at_call = {} /\ t.delivered = <<>>

Remove(seq, i) ==
    [k \in 1 .. (Len(seq) - 1) |-> IF k < i THEN seq[k] ELSE seq[k + 1]]

\* the coroutine starts: the snapshot of the keys, then the first iteration
broadcast_start(i) ==
    /\ i \in 1 .. Len(tasks)
    /\ tasks[i].pc = "scheduled"
    /\ \A j \in 1 .. (i - 1) : tasks[j].pc # "scheduled"
    /\ LET t == broadcast_advance([tasks[i] EXCEPT
                                      !.todo = SetToSeq(DOMAIN active_connections)],
                                  active_connections)
       IN tasks' = IF Unobserved(t) THEN Remove(tasks, i) ELSE [tasks EXCEPT ![i] = t]
    /\ UNCHANGED <<stage_vars, http_response, ws_vars, other_device_vars>>

\* the awaited send_json resumes: delivered, ConnectionClosedOK (caught, the
\* client is skipped), or another exception (the coroutine ends with it).
\* Sends awaited on one socket resume in the order they were called.
broadcast_send(i) ==
    /\ i \in 1 .. Len(tasks)
    /\ tasks[i].pc = "sending"
    /\ \A j \in 1 .. (i - 1) :
          ~(tasks[j].pc = "sending" /\ tasks[j].sock = tasks[i].sock)
    /\ LET t == tasks[i]
           s == t.sock
       IN CASE peer[s] = "open" ->
                 /\ inbox' = [inbox EXCEPT ![s] = Append(@, UpdateMsg(t.message))]
                 /\ tasks' = [tasks EXCEPT ![i] =
                                broadcast_advance([t EXCEPT !.delivered = Append(@, t.cur)],
                                                  active_connections)]
            [] peer[s] = "closed_ok" ->
                 /\ tasks' = [tasks EXCEPT ![i] = broadcast_advance(t, active_connections)]
                 /\ UNCHANGED inbox
            [] peer[s] = "closed_error" ->
                 /\ tasks' = [tasks EXCEPT ![i] = [t EXCEPT !.pc = "raised",
                                                            !.exc = "ConnectionClosedError"]]
                 /\ UNCHANGED inbox
            [] peer[s] = "server_closed" ->
                 /\ tasks' = [tasks EXCEPT ![i] = [t EXCEPT !.pc = "raised",
                                                            !.exc = "RuntimeError"]]
                 /\ UNCHANGED inbox
    /\ UNCHANGED <<stage_vars, http_response, wsid_i, active_connections, ws_pc, ws_wsid,
                   ws_item, ws_first, ws_log, peer, close_code, ws_pending, other_device_vars>>

----------------------------------------------------------------------------
(* SensorController (sensor.py): the sampling interval setters.  A sensor
   record is [temperature, humidity]: the value fields of the two
   sampling_interval configs. *)

SensorTimeUnit == {"s", "ms", "us", "ns"}

\* a frame handed up by the framer: a sample the sensor reported on its own
\* (value: its number) or the reply to a command (value: the command's number)
Frame(name, value) == [name |-> name, value |-> value]

NoFrame == Frame("none", 0)

\* the SensorTimeUnit rules of the sensor's UnitConverter, as powers of ten
sensor_rules ==
    [p \in (SensorTimeUnit \X SensorTimeUnit) |->
        CASE p = <<"s", "s">> -> 0    [] p = <<"s", "ms">> -> 3
          [] p = <<"s", "us">> -> 6   [] p = <<"s", "ns">> -> 9
          [] p = <<"ms", "s">> -> -3  [] p = <<"ms", "ms">> -> 0
          [] p = <<"ms", "us">> -> 3  [] p = <<"ms", "ns">> -> 6
          [] p = <<"us", "s">> -> -6  [] p = <<"us", "ms">> -> -3
          [] p = <<"us", "us">> -> 0  [] p = <<"us", "ns">> -> 3
          [] p = <<"ns", "s">> -> -9  [] p = <<"ns", "ms">> -> -6
          [] p = <<"ns", "us">> -> -3 [] p = <<"ns", "ns">> -> 0]

sensor_convert(quantity, unit_from, unit_to) ==
    [m |-> quantity.m, e |-> quantity.e + sensor_rules[<<unit_from, unit_to>>],
     err |-> quantity.err]

SensorStepUnit == "us"

\* what SensorController.command may return for a set_parameter command:
\* {"result": "OK"}, {"result": <other>}, the device's error reply
\* {"error": ...}, another map without 'result', or None when no frame
\* arrived before the timeout
DeviceReplies == {"OK", "FAIL", "error", "no_result", "None"}

\* not ('result' in r)
WithoutResult == {"error", "no_result"}

\* a call into SensorController: the method, what command() returned to it
\* ("" when it sent no command), and what it returned or raised
SensorCall(op, reply, result) ==
    [op |-> op, reply |-> reply, result |-> result, frame |-> NoFrame]

sensor_check_soft_limit_exceeded(value, lo, hi) ==
    IF (value > hi) \/ (value < lo) THEN TRUE ELSE FALSE

\* the tail of both setters: the reply decides whether the value is stored;
\* 'result' in None raises TypeError
sensor_store(current, value, result, reply) ==
    CASE reply = "None" -> [value |-> current, result |-> "TypeError"]
      [] reply \in WithoutResult ->
             [value |-> current, result |-> RESPONSE_VALIDATION_FAILURE]
      [] reply = "OK" -> [value |-> value, result |-> result]
      [] OTHER -> [value |-> current, result |-> DEVICE_ERROR]

set_temperature_sampling_interval(sn, value, reply) ==
    IF sensor_check_soft_limit_exceeded(value, minimum, maximum)
    THEN [sn |-> sn, writes |-> 0, result |-> SOFT_LIMIT_EXCEEDED, reply |-> ""]
    ELSE LET result == IF value = sn.temperature THEN WARN_NO_ACTION ELSE OK
             r == sensor_store(sn.temperature, value, result, reply)
         IN [sn |-> [sn EXCEPT !.temperature = r.value], writes |-> 1, result |-> r.result,
             reply |-> reply]

set_absolute_temperature_sampling_interval(sn, interval, unit, reply) ==
    LET target_value == sensor_convert(interval, unit, SensorStepUnit)
    IN set_temperature_sampling_interval(sn, int_div(target_value, 1), reply)

set_humidity_sampling_interval(sn, value, reply) ==
    IF sensor_check_soft_limit_exceeded(value, minimum, maximum)
    THEN [sn |-> sn, writes |-> 0, result |-> SOFT_LIMIT_EXCEEDED, reply |-> ""]
    ELSE LET result == IF value = sn.humidity THEN WARN_NO_ACTION ELSE OK
             r == sensor_store(sn.humidity, value, result, reply)
         IN [sn |-> [sn EXCEPT !.humidity = r.value], writes |-> 1, result |-> r.result,
             reply |-> reply]

set_absolute_humidity_sampling_interval(sn, interval, unit, reply) ==
    LET target_value == sensor_convert(interval, unit, SensorStepUnit)
    IN set_humidity_sampling_interval(sn, int_div(target_value, 1), reply)

----------------------------------------------------------------------------
(* Continuous sampling mode of the sensor (sensor.py, sensor ws.py and the
   POST /parameter handler of the sensor's main.py).

   Three threads take part.  The event loop runs the HTTP handlers, the
   ws_endpoint tasks and the broadcast coroutines; POST /parameter is an
   async function that calls into SensorController without awaiting, so the
   event loop runs nothing else until the call returns.  The Stream Reader
   thread runs __continuous_sampling_mode_task.  The transport's receiving
   thread appends every frame that arrives to framer.received_packets.

   continuous_sampling_mode_thread:
     "None"     never created
     "created"  Thread object built, not started
     "check"    running, at the while condition
     "receive"  running, in framer.receive_frame(timeout=1.0)
     "handle"   running, in handle_message, waiting in future.result
     "ended"    the task has returned
   stop_pc: "idle", or where stop_continuous_sampling_mode stands:
     "receive"       stop command written, in receive_frame(timeout=0.1)
     "join_packets"  in received_packets.join()
     "join_thread"   flag cleared, in continuous_sampling_mode_thread.join() *)

\* samples the mocked sensor reports in one run
MaxSamples == 2

Alive(thread) == thread \in {"check", "receive", "handle"}

\* the fields start_continuous_sampling_mode reads and writes
Streaming ==
    [running |-> continuous_sampling_mode_running,
     thread |-> continuous_sampling_mode_thread,
     burst |-> burst]

\* start_continuous_sampling_mode without its test of the flag
start_continuous_sampling_mode_unguarded(st, reply) ==
    LET st1 == [st EXCEPT !.running = TRUE, !.thread = "created"]
    IN IF reply = "OK"
       THEN [st |-> [st1 EXCEPT !.thread = "check", !.burst = TRUE],
             writes |-> 1, reply |-> reply, result |-> OK]
       ELSE [st |-> st1, writes |-> 1, reply |-> reply, result |-> DEVICE_ERROR]

\* SensorController.start_continuous_sampling_mode; reply is what command()
\* returns for start_continuous_mode
start_continuous_sampling_mode(st, reply) ==
    IF st.running
    THEN [st |-> st, writes |-> 0, reply |-> "", result |-> INVALID_ACTION]
    ELSE LET st1 == [st EXCEPT !.running = TRUE, !.thread = "created"]
         IN CASE reply = "None" ->
                   \* 'result' in None raises TypeError
                   [st |-> st1, writes |-> 1, reply |-> reply, result |-> "TypeError"]
              [] reply \in WithoutResult ->
                   [st |-> st1, writes |-> 1, reply |-> reply,
                    result |-> RESPONSE_VALIDATION_FAILURE]
              [] reply = "OK" ->
                   [st |-> [st1 EXCEPT !.thread = "check", !.burst = TRUE],
                    writes |-> 1, reply |-> reply, result |-> OK]
              [] OTHER ->
                   [st |-> st1, writes |-> 1, reply |-> reply, result |-> DEVICE_ERROR]

\* the mocked sensor reports a sample: the receiving thread queues its frame
device_burst ==
    /\ device = "sensor"
    /\ burst
    /\ sample_i < MaxSamples
    /\ sample_i' = sample_i + 1
    /\ received_packets' = Append(received_packets, Frame("sample", sample_i + 1))
    /\ UNCHANGED <<stage_vars, http_response, ws_vars, tasks, sensor, sensor_writes,
                   spectrometer, device, client_vars, sensor_last, continuous_sampling_mode_running,
                   continuous_sampling_mode_thread, burst, stop_pc, send_switch,
                   reader_frame, stopped>>

\* __continuous_sampling_mode_task: while self.continuous_sampling_mode_running
reader_check ==
    /\ continuous_sampling_mode_thread = "check"
    /\ continuous_sampling_mode_thread' =
           IF continuous_sampling_mode_running THEN "receive" ELSE "ended"
    /\ UNCHANGED <<stage_vars, http_response, ws_vars, tasks, sensor, sensor_writes,
                   spectrometer, device, client_vars, sensor_last, continuous_sampling_mode_running,
                   received_packets, burst, sample_i, stop_pc, send_switch,
                   reader_frame, stopped>>

\* receive_frame(timeout=1.0) returns a frame, which goes to handle_message:
\* with send_switch on, the broadcast is scheduled and its future awaited
reader_receive ==
    /\ continuous_sampling_mode_thread = "receive"
    /\ received_packets # <<>>
    /\ reader_frame' = Head(received_packets)
    /\ received_packets' = Tail(received_packets)
    /\ IF send_switch
       THEN /\ Len(tasks) < MaxUpdates
            /\ tasks' = Append(tasks, NewTask(Head(received_packets)))
            /\ continuous_sampling_mode_thread' = "handle"
       ELSE /\ continuous_sampling_mode_thread' = "check"
            /\ UNCHANGED tasks
    /\ UNCHANGED <<stage_vars, http_response, ws_vars, sensor, sensor_writes,
                   spectrometer, device, client_vars, sensor_last, continuous_sampling_mode_running,
                   burst, sample_i, stop_pc, send_switch, stopped>>

\* receive_frame(timeout=1.0) returns nothing
reader_receive_timeout ==
    /\ continuous_sampling_mode_thread = "receive"
    /\ received_packets = <<>>
    /\ continuous_sampling_mode_thread' = "check"
    /\ UNCHANGED <<stage_vars, http_response, ws_vars, tasks, sensor, sensor_writes,
                   spectrometer, device, client_vars, sensor_last, continuous_sampling_mode_running,
                   received_packets, burst, sample_i, stop_pc, send_switch,
                   reader_frame, stopped>>

\* the broadcasts of the frame the reader handed to handle_message
Handled == {i \in 1 .. Len(tasks) : tasks[i].message = reader_frame}

\* handle_message: future.result(timeout=0.2) returns, raises what the
\* broadcast raised, or times out.  The timeout leaves the broadcast on the
\* event loop; "except TimeoutError" catches it where the future's
\* TimeoutError is the builtin one, elsewhere "except Exception" does and
\* turns send_switch off.
reader_handled(caught) ==
    /\ continuous_sampling_mode_thread = "handle"
    /\ continuous_sampling_mode_thread' = "check"
    /\ send_switch' =
           IF \E i \in Handled : tasks[i].pc = "raised" THEN FALSE
           ELSE IF \E i \in Handled : tasks[i].pc # "done" THEN caught
           ELSE send_switch
    /\ UNCHANGED <<stage_vars, http_response, ws_vars, tasks, sensor, sensor_writes,
                   spectrometer, device, client_vars, sensor_last, continuous_sampling_mode_running,
                   received_packets, burst, sample_i, stop_pc, reader_frame, stopped>>

\* stop_continuous_sampling_mode up to the write of its command: the mock's
\* burst is stopped, stop_continuous_mode is written, and the device's reply,
\* if it sends one, is queued by the receiving thread
stop_write(reply) ==
    /\ burst' = FALSE
    /\ received_packets' = IF reply = "None" THEN received_packets
                           ELSE Append(received_packets,
                                       Frame("reply", sensor_writes + 1))
    /\ stop_pc' = "receive"

\* command(): receive_frame(timeout=0.1) returns the next queued frame, or
\* None when there is none
sensor_stop_receive ==
    /\ stop_pc = "receive"
    /\ stop_pc' = "join_packets"
    /\ IF received_packets # <<>>
       THEN /\ sensor_last' = [sensor_last EXCEPT !.frame = Head(received_packets)]
            /\ received_packets' = Tail(received_packets)
       ELSE /\ sensor_last' = [sensor_last EXCEPT !.reply = "None"]
            /\ UNCHANGED received_packets
    /\ UNCHANGED <<stage_vars, http_response, ws_vars, tasks, sensor, sensor_writes,
                   spectrometer, device, client_vars, continuous_sampling_mode_running,
                   continuous_sampling_mode_thread, burst, sample_i, send_switch,
                   reader_frame, stopped>>

\* received_packets.join() returns when the queue is drained; then the flag
\* is cleared
sensor_stop_join_packets ==
    /\ stop_pc = "join_packets"
    /\ received_packets = <<>>
    /\ continuous_sampling_mode_running' = FALSE
    /\ stop_pc' = "join_thread"
    /\ UNCHANGED <<stage_vars, http_response, ws_vars, tasks, sensor, sensor_writes,
                   spectrometer, device, client_vars, sensor_last, continuous_sampling_mode_thread,
                   received_packets, burst, sample_i, send_switch, reader_frame,
                   stopped>>

\* the thread is joined if it is alive; framer.clean_up(); return OK, and
\* POST /parameter answers
sensor_stop_return ==
    /\ stop_pc = "join_thread"
    /\ ~Alive(continuous_sampling_mode_thread)
    /\ received_packets' = <<>>
    /\ stop_pc' = "idle"
    /\ stopped' = TRUE
    /\ sensor_last' = [sensor_last EXCEPT !.result = OK]
    /\ http_response' = [http_response EXCEPT !.status = 200]
    /\ UNCHANGED <<stage_vars, ws_vars, tasks, sensor, sensor_writes, spectrometer,
                   device, client_vars, continuous_sampling_mode_running,
                   continuous_sampling_mode_thread, burst, sample_i, send_switch,
                   reader_frame>>

\* bodies of POST /parameter: each interval is None or a quantity, and
\* continuous_sampling_mode is "None", "true" or "false"
ParameterUpdate(temperature, humidity, continuous) ==
    [temperature_sampling_interval |-> temperature,
     humidity_sampling_interval |-> humidity,
     continuous_sampling_mode |-> continuous]

\* set_parameter of the sensor server, from the access check to the return or
\* to the point where stop_continuous_sampling_mode waits for its reply
http_set_parameter(token, parameter_update, reply) ==
    /\ device = "sensor"
    /\ stop_pc = "idle"
    /\ \/ /\ Denied("POST /parameter", token, standard)
          /\ UNCHANGED <<sensor, sensor_writes, sensor_last, streaming_vars>>
       \/ /\ Granted(token, standard)
          /\ LET t == parameter_update.temperature_sampling_interval
                 h == parameter_update.humidity_sampling_interval
                 c == parameter_update.continuous_sampling_mode
                 skipped == [sn |-> sensor, writes |-> 0, result |-> OK, reply |-> ""]
                 r1 == IF t = None THEN skipped
                       ELSE set_absolute_temperature_sampling_interval(
                                sensor, t.value, t.unit, reply)
                 r2 == IF h = None \/ r1.result = "TypeError"
                       THEN [skipped EXCEPT !.sn = r1.sn]
                       ELSE set_absolute_humidity_sampling_interval(
                                r1.sn, h.value, h.unit, reply)
                 raised == r1.result = "TypeError" \/ r2.result = "TypeError"
                 result == IF r1.result = OK /\ r2.result = OK THEN OK ELSE ERROR_GENERIC
                 r3 == start_continuous_sampling_mode(Streaming, reply)
                 last == IF r2.writes > 0 \/ (h # None /\ ~raised) THEN r2 ELSE r1
                 set == IF t = None /\ h = None THEN sensor_last
                        ELSE SensorCall("set_sampling_interval", last.reply, last.result)
             IN /\ sensor' = r2.sn
                /\ CASE raised \/ c = "None" ->
                          /\ sensor_writes' = sensor_writes + r1.writes + r2.writes
                          /\ sensor_last' = set
                          /\ http_response' =
                                By(token, Response("POST /parameter",
                                                   IF raised THEN 500 ELSE 200,
                                                   IF raised THEN "" ELSE result, NoValue))
                          /\ UNCHANGED streaming_vars
                     [] ~raised /\ c = "true" ->
                          /\ sensor_writes' = sensor_writes + r1.writes + r2.writes
                                                 + r3.writes
                          /\ sensor_last' = SensorCall("start_continuous_sampling_mode",
                                                       r3.reply, r3.result)
                          /\ continuous_sampling_mode_running' = r3.st.running
                          /\ continuous_sampling_mode_thread' = r3.st.thread
                          /\ burst' = r3.st.burst
                          /\ send_switch' = IF r3.result = OK THEN TRUE ELSE send_switch
                          /\ stopped' = IF r3.result = OK THEN FALSE ELSE stopped
                          /\ http_response' =
                                By(token, Response("POST /parameter",
                                                   IF r3.result = "TypeError"
                                                   THEN 500 ELSE 200,
                                                   IF r3.result = "TypeError"
                                                   THEN "" ELSE result, NoValue))
                          /\ UNCHANGED <<received_packets, sample_i, stop_pc, reader_frame>>
                     [] ~raised /\ c = "false" ->
                          /\ sensor_writes' = sensor_writes + r1.writes + r2.writes + 1
                          /\ sensor_last' = SensorCall("stop_continuous_sampling_mode",
                                                       reply, "")
                          /\ stop_write(reply)
                          /\ http_response' =
                                By(token, Response("POST /parameter", 0, result, NoValue))
                          /\ UNCHANGED <<continuous_sampling_mode_running,
                                         continuous_sampling_mode_thread, sample_i,
                                         send_switch, reader_frame, stopped>>
          /\ UNCHANGED <<stage_vars, tasks>>
    /\ sensor_writes' <= MaxCommands
    /\ UNCHANGED <<ws_vars, spectrometer, device, client_vars>>

\* get_parameter of the sensor server
http_get_parameter(token) ==
    /\ device = "sensor"
    /\ stop_pc = "idle"
    /\ \/ Denied("GET /parameter", token, readonly)
       \/ /\ Granted(token, readonly)
          /\ http_response' =
                By(token, Response("GET /parameter", 200, "",
                                   LogicalQuantity(sensor.temperature)))
          /\ UNCHANGED <<stage_vars, tasks>>
    /\ UNCHANGED <<ws_vars, other_device_vars>>

----------------------------------------------------------------------------
(* SpectrometerController (spectrometer.py): a spectrometer record is
   [integration_time, boxcar_width, average_times] *)

SpectrometerTimeUnit == {"s", "ms", "us", "ns"}

spectrometer_rules ==
    [p \in (SpectrometerTimeUnit \X SpectrometerTimeUnit) |->
        CASE p = <<"s", "s">> -> 0    [] p = <<"s", "ms">> -> 3
          [] p = <<"s", "us">> -> 6   [] p = <<"s", "ns">> -> 9
          [] p = <<"ms", "s">> -> -3  [] p = <<"ms", "ms">> -> 0
          [] p = <<"ms", "us">> -> 3  [] p = <<"ms", "ns">> -> 6
          [] p = <<"us", "s">> -> -6  [] p = <<"us", "ms">> -> -3
          [] p = <<"us", "us">> -> 0  [] p = <<"us", "ns">> -> 3
          [] p = <<"ns", "s">> -> -9  [] p = <<"ns", "ms">> -> -6
          [] p = <<"ns", "us">> -> -3 [] p = <<"ns", "ns">> -> 0]

spectrometer_convert(quantity, unit_from, unit_to) ==
    [m |-> quantity.m, e |-> quantity.e + spectrometer_rules[<<unit_from, unit_to>>],
     err |-> quantity.err]

IntegrationStepUnit == "ms"

spectrometer_check_soft_limit_exceeded(value, lo, hi) ==
    IF (value > hi) \/ (value < lo) THEN TRUE ELSE FALSE

set_integration_time(sm, value) ==
    IF spectrometer_check_soft_limit_exceeded(value, minimum, maximum)
    THEN [sm |-> sm, result |-> SOFT_LIMIT_EXCEEDED]
    ELSE [sm |-> [sm EXCEPT !.integration_time = value],
          result |-> IF value = sm.integration_time THEN WARN_NO_ACTION ELSE OK]

set_integration_time_with_unit(sm, value, unit) ==
    LET target_value == spectrometer_convert(value, unit, IntegrationStepUnit)
    IN set_integration_time(sm, int_div(target_value, StepValue))

set_boxcar_width(sm, value) ==
    IF spectrometer_check_soft_limit_exceeded(value, minimum, maximum)
    THEN [sm |-> sm, result |-> SOFT_LIMIT_EXCEEDED]
    ELSE [sm |-> [sm EXCEPT !.boxcar_width = value],
          result |-> IF value = sm.boxcar_width THEN WARN_NO_ACTION ELSE OK]

set_average_times(sm, value) ==
    IF spectrometer_check_soft_limit_exceeded(value, minimum, maximum)
    THEN [sm |-> sm, result |-> SOFT_LIMIT_EXCEEDED]
    ELSE [sm |-> [sm EXCEPT !.average_times = value],
          result |-> IF value = sm.average_times THEN WARN_NO_ACTION ELSE OK]

----------------------------------------------------------------------------
(* The servers after startup *)

InitStage(hook) ==
    /\ sc = [position |-> default_value, velocity |-> default_value,
             acceleration |-> default_value, command_id |-> 0, update_hook |-> hook]
    /\ ser_writes = 0
    /\ ser_response = "OK"
    /\ last_call = NoCall
    /\ http_response = Response("none", 0, "", NoValue)
    /\ wsid_i = 0
    /\ active_connections = <<>>
    /\ ws_pc = [s \in Sockets |-> "new"]
    /\ ws_wsid = [s \in Sockets |-> 0]
    /\ ws_item = [s \in Sockets |-> 0]
    /\ ws_first = [s \in Sockets |-> NoFirstMessage]
    /\ ws_log = [s \in Sockets |-> <<>>]
    /\ peer = [s \in Sockets |-> "open"]
    /\ inbox = [s \in Sockets |-> <<>>]
    /\ close_code = [s \in Sockets |-> 0]
    /\ ws_pending = [s \in Sockets |-> NoMsg]
    /\ tasks = <<>>

(* The client library: RemoteLinearStage after __init__ has started its
   three threads.  A thread is at "exited" when its function has returned
   and at "raised" when an exception has ended it. *)

\* connections the channel handler opens in one run
MaxLinks == 2
\* calls of websocket_command in one run
MaxCalls == 2
\* the longest timeout of a call, in polls of websocket_command
MaxTimeout == 1

\* the threads of a program that send commands through one client
CommandThreads == {1, 2}

NoGeneration == [pc |-> "idle", loaded |-> 0, cid |-> 0]

NoCommand == [pc |-> "idle", cid |-> 0, timeout |-> -1, elapsed |-> 0, n |-> 0]

RemoteLinearStage ==
    /\ authentication_watchdog_running = TRUE
    /\ stage_state_watchdog_running = TRUE
    /\ authentication_watchdog_thread = "check"
    /\ stage_state_watchdog_thread = "poll"
    /\ pending_reauthentication = FALSE
    /\ websocket_handler_running = TRUE
    /\ websocket_connection = 0
    /\ websocket_handler_thread = "loop"
    /\ links = <<>>
    /\ websocket_command_status = [cid \in 1 .. MaxCalls |-> "None"]
    /\ websocket_command_id = 0
    /\ close_pc = "idle"
    /\ call = NoCommand
    /\ results_handled = {}
    /\ command_threads = [t \in CommandThreads |-> NoGeneration]
    /\ client_position = default_value
    /\ poll_reply = 0

InitOther ==
    /\ RemoteLinearStage
    /\ sensor = [temperature |-> default_value, humidity |-> default_value]
    /\ sensor_writes = 0
    /\ sensor_last = SensorCall("none", "", "")
    /\ continuous_sampling_mode_running = FALSE
    /\ continuous_sampling_mode_thread = "None"
    /\ received_packets = <<>>
    /\ burst = FALSE
    /\ sample_i = 0
    /\ stop_pc = "idle"
    /\ send_switch = TRUE
    /\ reader_frame = NoFrame
    /\ stopped = FALSE
    /\ spectrometer = [integration_time |-> default_value, boxcar_width |-> default_value,
                       average_times |-> default_value]

Init ==
    InitStage("WSDeviceStateUpdateSender") /\ InitOther /\ device = "linear_stage"

----------------------------------------------------------------------------
(* The whole stage server *)

BroadcastSteps ==
    \/ \E i \in 1 .. MaxUpdates : broadcast_start(i)
    \/ \E i \in 1 .. MaxUpdates : broadcast_send(i)

Next ==
    \/ \E token \in Tokens : http_get_position(token)
    \/ \E token \in Tokens, target \in PositionInputs : http_set_position(token, target)
    \/ \E token \in Tokens : http_get_absolute_position(token)
    \/ \E token \in Tokens, operation \in DisplacementInputs :
          http_set_absolute_position(token, operation)
    \/ \E s \in Sockets : ws_accept(s)
    \/ \E s \in Sockets, how \in {"closed_ok", "closed_error"} : client_close(s, how)
    \/ \E s \in Sockets : ws_receive_disconnect(s)
    \/ \E s \in Sockets, msg \in FirstMessages : ws_connect_receive(s, msg)
    \/ \E s \in Sockets : ws_connect_register(s)
    \/ \E s \in Sockets : ws_send_fails(s)
    \/ \E s \in Sockets, msg \in OperationMessages :
          Answered(s) < MaxResults /\ ws_run_receive(s, msg)
    \/ \E s \in Sockets : ws_run_send(s)
    \/ \E s \in Sockets : ws_error_send(s)
    \/ BroadcastSteps

Spec == Init /\ [][Next]_vars

----------------------------------------------------------------------------
(* The HTTP surface alone: no persistent channel connects, and each request
   arrives when the event loop has run the broadcasts scheduled before it *)

Idle == \A i \in 1 .. Len(tasks) : tasks[i].pc # "scheduled"

NextHttp ==
    \/ Idle /\ \E token \in Tokens : http_get_position(token)
    \/ Idle /\ \E token \in Tokens, target \in PositionInputs :
                  http_set_position(token, target)
    \/ Idle /\ \E token \in Tokens : http_get_absolute_position(token)
    \/ Idle /\ \E token \in Tokens, operation \in DisplacementInputs :
                  http_set_absolute_position(token, operation)
    \/ \E i \in 1 .. MaxUpdates : broadcast_start(i)

SpecHttp == Init /\ [][NextHttp]_vars

(* C5: a POST /position or POST /absolute_position that passes the access
   check and whose logical target is above maximum or below minimum answers
   soft_limit_exceeded, writes nothing to the transport, leaves command_id
   and the stored position as they were, and schedules no broadcast and
   delivers nothing to any subscriber. *)
RejectedHasNoEffect ==
    /\ http_response'.result = SOFT_LIMIT_EXCEEDED
    /\ ser_writes' = ser_writes
    /\ sc'.command_id = sc.command_id
    /\ sc'.position = sc.position
    /\ tasks' = tasks
    /\ inbox' = inbox

\* the step may be a granted request to the endpoint req
Answers(req) ==
    http_response'.req = req /\ http_response'.status = 200

OutOfLimits(target) ==
    (target > maximum) \/ (target < minimum)

LogicalTarget(operation) ==
    int_div(convert(operation.value, operation.unit, StepUnit), StepValue)

SoftLimitRejection ==
    [][/\ Answers("POST /position") =>
            \A token \in Tokens, target \in PositionInputs :
               (Granted(token, standard) /\ OutOfLimits(target)
                   /\ http_set_position(token, target)) => RejectedHasNoEffect
       /\ Answers("POST /absolute_position") =>
            \A token \in Tokens, operation \in DisplacementInputs :
               (Granted(token, standard) /\ OutOfLimits(LogicalTarget(operation))
                   /\ http_set_absolute_position(token, operation))
                  => RejectedHasNoEffect]_vars

\* a physical set was rejected after the stage had moved
SoftLimitRejectionWitness ==
    /\ http_response.req = "POST /absolute_position"
    /\ http_response.result = SOFT_LIMIT_EXCEEDED
    /\ last_call.target = minimum - 1
    /\ sc.position = maximum
    /\ ser_writes > 0

(* C6: a POST /position or POST /absolute_position that passes the access
   check and whose logical target equals the stored position, within the soft
   limits, answers warn_no_action, writes exactly one command to the
   transport, and leaves the stored position equal to what it was. *)
NoActionStillTransmits ==
    /\ http_response'.result = WARN_NO_ACTION
    /\ ser_writes' = ser_writes + 1
    /\ sc'.command_id = sc.command_id + 1
    /\ sc'.position = sc.position

NoOpAdvisory ==
    [][/\ Answers("POST /position") =>
            \A token \in Tokens, target \in PositionInputs :
               (Granted(token, standard) /\ ~OutOfLimits(target) /\ target = sc.position
                   /\ http_set_position(token, target)) => NoActionStillTransmits
       /\ Answers("POST /absolute_position") =>
            \A token \in Tokens, operation \in DisplacementInputs :
               (Granted(token, standard) /\ ~OutOfLimits(LogicalTarget(operation))
                   /\ LogicalTarget(operation) = sc.position
                   /\ http_set_absolute_position(token, operation))
                  => NoActionStillTransmits]_vars

\* the stage was moved, then told to go where it already is
NoOpAdvisoryWitness ==
    /\ http_response.result = WARN_NO_ACTION
    /\ sc.position # default_value
    /\ ser_writes >= 2

(* C7: when GET /position answers and the most recent position set was a
   POST /position that was not rejected (OK or warn_no_action) with value v,
   the answer is v. *)
WriteThenReadPosition ==
    (/\ http_response.req = "GET /position"
     /\ http_response.status = 200
     /\ last_call.op = "set_position"
     /\ last_call.result \in {OK, WARN_NO_ACTION})
        => http_response.value = LogicalQuantity(last_call.target)

\* GET /position answered after an accepted POST /position moved the stage
WriteThenReadPositionWitness ==
    /\ http_response.req = "GET /position"
    /\ http_response.status = 200
    /\ last_call.op = "set_position"
    /\ last_call.result = OK
    /\ last_call.target = minimum
    /\ ser_writes >= 2

----------------------------------------------------------------------------
(* The absolute position endpoints with displacements in every unit *)

\* the exponent that writes a whole number of StepUnit in each unit
UnitExponent(unit) ==
    0 - rules[<<unit, StepUnit>>]

\* the doubles nearest a decimal literal: a whole number is a double, another
\* decimal has its nearest double at it, just below it or just above it
Doubles(m, e) ==
    {[m |-> m, e |-> e, err |-> r] : r \in IF e < 0 THEN {0 - 1, 0, 1} ELSE {0}}

\* whole steps and half steps at and around the limits, and values just
\* below and just above every such whole step, written in each unit
RoundTripInputs ==
    UNION {{[value |-> x, unit |-> u] :
               x \in UNION ({Doubles(StepValue * j + d, UnitExponent(u)) :
                               j \in PositionInputs, d \in {0, StepValue \div 2}}
                            \cup
                            {Doubles(10 * StepValue * j + d, UnitExponent(u) - 1) :
                               j \in PositionInputs, d \in {0 - 1, 1}})} :
           u \in StageDisplacementUnit}

NextRoundTrip ==
    \/ Idle /\ \E operation \in RoundTripInputs :
                  http_set_absolute_position(standard, operation)
    \/ Idle /\ \E token \in {0, readonly} : http_get_absolute_position(token)
    \/ \E i \in 1 .. MaxUpdates : broadcast_start(i)

SpecRoundTrip == Init /\ [][NextRoundTrip]_vars

Min(a, b) == IF a <= b THEN a ELSE b

\* |a - b| for doubles a and b
AbsDiff(a, b) ==
    LET e == Min(a.e, b.e)
        d == a.m * Pow10(a.e - e) - b.m * Pow10(b.e - e)
        r == a.err - b.err
    IN CASE d > 0 -> [m |-> d, e |-> e, err |-> r]
         [] d < 0 -> [m |-> 0 - d, e |-> e, err |-> 0 - r]
         [] OTHER -> [m |-> 0, e |-> e, err |-> IF r >= 0 THEN r ELSE 0 - r]

\* a <= b for doubles a and b
Leq(a, b) ==
    LET e == Min(a.e, b.e)
        da == a.m * Pow10(a.e - e)
        db == b.m * Pow10(b.e - e)
    IN (da < db) \/ (da = db /\ a.err <= b.err)

(* C8: when GET /absolute_position answers and the most recent position set
   was an accepted POST /absolute_position of x in unit u, the answer
   converted to u differs from x by at most one step. *)
AbsolutePositionRoundTrip ==
    (/\ http_response.req = "GET /absolute_position"
     /\ http_response.status = 200
     /\ last_call.op = "set_absolute_position"
     /\ last_call.result \in {OK, WARN_NO_ACTION})
        => LET x == last_call.request.value
               u == last_call.request.unit
               returned == convert(http_response.value.value, http_response.value.unit, u)
               step == convert([m |-> StepValue, e |-> 0, err |-> 0], StepUnit, u)
           IN Leq(AbsDiff(returned, x), step)

----------------------------------------------------------------------------
(* Fan-out: subscribers that authenticate with a standard token come and go
   while POST /position requests publish updates *)

FanoutTargets == {minimum, maximum, maximum + 1}

NextFanout ==
    \/ \E target \in FanoutTargets : http_set_position(standard, target)
    \/ \E s \in Sockets : ws_accept(s)
    \/ \E s \in Sockets, how \in {"closed_ok", "closed_error"} : client_close(s, how)
    \/ \E s \in Sockets : ws_receive_disconnect(s)
    \/ \E s \in Sockets : ws_connect_receive(s, [kind |-> "object", token |-> standard])
    \/ \E s \in Sockets : ws_connect_register(s)
    \/ \E s \in Sockets : ws_send_fails(s)
    \/ BroadcastSteps

SpecFanout == Init /\ [][NextFanout]_vars

Finished(t) == t.pc \in {"done", "raised"}

\* the session wsid is registered and its socket is open
Listening(wsid) ==
    /\ wsid \in DOMAIN active_connections
    /\ peer[active_connections[wsid].websocket] = "open"

Count(seq, x) == Cardinality({k \in 1 .. Len(seq) : seq[k] = x})

(* C1: once the broadcast of a POST /position has run to its end, every
   subscriber that was registered when the request was made and is still
   registered with an open socket has been sent that update exactly once. *)
FanOutExactlyOnce ==
    \A i \in 1 .. Len(tasks) :
        Finished(tasks[i]) =>
            \A wsid \in tasks[i].at_call :
                Listening(wsid) => Count(tasks[i].delivered, wsid) = 1

(* C2: a broadcast that meets a closed socket does not end there: it never
   ends with the exception of a failed send. *)
ClosedSubscriberNeverAborts ==
    \A i \in 1 .. Len(tasks) :
        tasks[i].pc = "raised" => tasks[i].exc \notin {"ConnectionClosedError", "RuntimeError"}

(* C3: a broadcast never raises because the registry changed while it was
   suspended in a send: no broadcast ends with the KeyError of a session
   that left the registry after the snapshot was taken. *)
BroadcastSafeAgainstRegistryChange ==
    \A i \in 1 .. Len(tasks) : tasks[i].exc # "KeyError"

\* message a stands before message b in seq
Before(seq, a, b) ==
    \E k, l \in 1 .. Len(seq) : k < l /\ seq[k] = a /\ seq[l] = b

(* C11: when two different updates were published one after the other, a
   subscriber that was registered when each was published, is still
   registered and has received both, received the earlier one first. *)
SourceOrderPreserved ==
    \A i, j \in 1 .. Len(tasks) :
        (i < j /\ tasks[i].message # tasks[j].message) =>
            \A s \in Sockets :
                (/\ ws_wsid[s] \in tasks[i].at_call \cap tasks[j].at_call
                 /\ ws_wsid[s] \in DOMAIN active_connections
                 /\ Count(inbox[s], UpdateMsg(tasks[i].message)) = 1
                 /\ Count(inbox[s], UpdateMsg(tasks[j].message)) = 1)
                    => Before(inbox[s], UpdateMsg(tasks[i].message),
                              UpdateMsg(tasks[j].message))

----------------------------------------------------------------------------
(* The connection manager: two subscribers and one position *)

NextManager ==
    \/ http_set_position(standard, maximum)
    \/ \E s \in {1, 2} : ws_accept(s)
    \/ \E s \in {1, 2}, how \in {"closed_ok", "closed_error"} : client_close(s, how)
    \/ \E s \in {1, 2} : ws_receive_disconnect(s)
    \/ \E s \in {1, 2} : ws_connect_receive(s, [kind |-> "object", token |-> standard])
    \/ \E s \in {1, 2} : ws_connect_register(s)
    \/ \E s \in {1, 2} : ws_send_fails(s)
    \/ BroadcastSteps

SpecManager == Init /\ [][NextManager]_vars

\* the endpoint task of socket s returns or raises in this step
Ends(s) == ws_pc[s] # "ended" /\ ws_pc'[s] = "ended"

(* C10: a step in which a subscriber's endpoint ends removes that
   subscriber's record and no other, keeps every other record as it was,
   ends no other endpoint, and leaves the stage's state, its transport, the
   scheduled broadcasts and the other devices alone; records leave the
   registry in no other step; and disconnect of an id that is not registered
   returns the registry unchanged. *)
DisconnectRemovesExactlyOne ==
    [][/\ \A s \in Sockets :
            Ends(s) =>
               /\ DOMAIN active_connections' = DOMAIN active_connections \ {ws_wsid[s]}
               /\ \A w \in DOMAIN active_connections' :
                     active_connections'[w] = active_connections[w]
               /\ \A t \in Sockets \ {s} : ws_pc'[t] = ws_pc[t]
               /\ UNCHANGED <<stage_vars, tasks, other_device_vars>>
       /\ (DOMAIN active_connections \ DOMAIN active_connections' # {}) =>
             \E s \in Sockets : Ends(s) /\ ws_wsid[s] \in DOMAIN active_connections
       /\ \A wsid \in 0 .. (MaxSockets + 1) :
             wsid \notin DOMAIN active_connections =>
                disconnect(active_connections, wsid) = active_connections]_vars

\* a subscriber left while a broadcast that has it in its snapshot is suspended
\* in a send, and the other subscriber is still registered
DisconnectRemovesExactlyOneWitness ==
    \E s \in Sockets, i \in 1 .. Len(tasks) :
        /\ ws_pc[s] = "ended"
        /\ ws_wsid[s] # 0
        /\ ws_wsid[s] \notin DOMAIN active_connections
        /\ tasks[i].pc = "sending"
        /\ \E k \in 1 .. Len(tasks[i].todo) : tasks[i].todo[k] = ws_wsid[s]
        /\ tasks[i].cur \in DOMAIN active_connections

----------------------------------------------------------------------------
(* The persistent channel: every kind of first message, then operations *)

ChannelMessages ==
    {m \in OperationMessages :
        m.kind = "operation" => m.operation.position.value \in {maximum, maximum + 1}}

NextChannel ==
    \/ \E s \in Sockets : ws_accept(s)
    \/ \E s \in Sockets, how \in {"closed_ok", "closed_error"} : client_close(s, how)
    \/ \E s \in Sockets : ws_receive_disconnect(s)
    \/ \E s \in Sockets, msg \in FirstMessages : ws_connect_receive(s, msg)
    \/ \E s \in Sockets : ws_connect_register(s)
    \/ \E s \in Sockets : ws_send_fails(s)
    \/ \E s \in Sockets, msg \in ChannelMessages :
          Answered(s) < MaxResults /\ ws_run_receive(s, msg)
    \/ \E s \in Sockets : ws_run_send(s)
    \/ \E s \in Sockets : ws_error_send(s)
    \/ BroadcastSteps

SpecChannel == Init /\ [][NextChannel]_vars

\* the first message was not a JSON object, or its token did not validate
BadFirstMessage(s) ==
    \/ ws_first[s].kind \in {"not_json", "not_object"}
    \/ ws_first[s].kind = "object" /\ ~validate_token(ws_first[s].token)

(* C9: every registered session belongs to a connection whose first message
   was a JSON object with a token that validated and that was sent
   {"auth_result": "success"}; a connection whose first message was malformed
   or whose token was rejected has ended with close code 1008, was never
   registered, and did not advance the id counter. *)
RegistrationGatedByHandshake ==
    /\ \A w \in DOMAIN active_connections :
          LET s == active_connections[w].websocket
          IN /\ ws_first[s].kind = "object"
             /\ validate_token(ws_first[s].token)
             /\ Len(inbox[s]) >= 1
             /\ inbox[s][1] = Msg("auth_result", "success", 0, 0)
    /\ \A s \in Sockets :
          BadFirstMessage(s) =>
             /\ ws_pc[s] = "ended"
             /\ close_code[s] = WS_1008_POLICY_VIOLATION
             /\ ws_wsid[s] = 0
    /\ wsid_i = Cardinality({s \in Sockets : ws_wsid[s] # 0})

----------------------------------------------------------------------------
(* The three controllers driven directly, one device per run.  The stage
   controller has no update hook attached, as when it is built outside the
   server. *)

Devices == {"linear_stage", "sensor", "spectrometer"}

InitDevices ==
    InitStage("None") /\ InitOther /\ device \in Devices

\* values a caller may pass for one StageOperation field
FieldInputs(unit) ==
    {None} \cup {Logical(v) : v \in PositionInputs}
        \cup {Physical([m |-> k * StepValue + (StepValue \div 2), e |-> 0, err |-> 0], unit) :
                 k \in {minimum - 1, maximum, maximum + 1}}

StageOperations ==
    [acceleration : FieldInputs(AccelerationStepUnit),
     velocity : FieldInputs(VelocityStepUnit),
     position : FieldInputs(StepUnit)]

IntervalInputs ==
    {[value |-> [m |-> v, e |-> ex[2], err |-> 0], unit |-> ex[1]] :
        v \in PositionInputs, ex \in {<<"us", 0>>, <<"ms", -3>>, <<"ns", 3>>}}
        \cup {[value |-> [m |-> 10 * v + 5, e |-> -1, err |-> 0], unit |-> "us"] : v \in PositionInputs}

IntegrationTimeInputs ==
    {[value |-> [m |-> k * StepValue + d, e |-> ex[2], err |-> 0], unit |-> ex[1]] :
        k \in PositionInputs, d \in {0, StepValue \div 2},
        ex \in {<<"ms", 0>>, <<"s", -3>>}}

sc_stage_operation(operation) ==
    /\ device = "linear_stage"
    /\ Commit(stage_operation(World, operation))
    /\ UNCHANGED <<http_response, ws_vars, other_device_vars>>

SensorCommit(r) ==
    /\ device = "sensor"
    /\ sensor_writes + r.writes <= MaxCommands
    /\ sensor' = r.sn
    /\ sensor_writes' = sensor_writes + r.writes
    /\ sensor_last' = SensorCall("set_sampling_interval", r.reply, r.result)
    /\ UNCHANGED <<stage_vars, http_response, ws_vars, tasks, spectrometer, device, client_vars,
                   streaming_vars>>

sensor_set_temperature_sampling_interval(value, reply) ==
    SensorCommit(set_temperature_sampling_interval(sensor, value, reply))

sensor_set_absolute_temperature_sampling_interval(interval, reply) ==
    SensorCommit(set_absolute_temperature_sampling_interval(sensor, interval.value,
                                                            interval.unit, reply))

sensor_set_humidity_sampling_interval(value, reply) ==
    SensorCommit(set_humidity_sampling_interval(sensor, value, reply))

sensor_set_absolute_humidity_sampling_interval(interval, reply) ==
    SensorCommit(set_absolute_humidity_sampling_interval(sensor, interval.value,
                                                         interval.unit, reply))

SpectrometerCommit(r) ==
    /\ device = "spectrometer"
    /\ spectrometer' = r.sm
    /\ UNCHANGED <<stage_vars, http_response, ws_vars, tasks, sensor, sensor_writes, device, client_vars,
                   sensor_last, streaming_vars>>

sm_set_integration_time(value) ==
    SpectrometerCommit(set_integration_time(spectrometer, value))

sm_set_integration_time_with_unit(operation) ==
    SpectrometerCommit(set_integration_time_with_unit(spectrometer, operation.value,
                                                      operation.unit))

sm_set_boxcar_width(value) ==
    SpectrometerCommit(set_boxcar_width(spectrometer, value))

sm_set_average_times(value) ==
    SpectrometerCommit(set_average_times(spectrometer, value))

NextDevices ==
    \/ \E operation \in StageOperations : sc_stage_operation(operation)
    \/ \E value \in PositionInputs, reply \in DeviceReplies :
          sensor_set_temperature_sampling_interval(value, reply)
    \/ \E interval \in IntervalInputs, reply \in DeviceReplies :
          sensor_set_absolute_temperature_sampling_interval(interval, reply)
    \/ \E value \in PositionInputs, reply \in DeviceReplies :
          sensor_set_humidity_sampling_interval(value, reply)
    \/ \E interval \in IntervalInputs, reply \in DeviceReplies :
          sensor_set_absolute_humidity_sampling_interval(interval, reply)
    \/ \E value \in PositionInputs : sm_set_integration_time(value)
    \/ \E operation \in IntegrationTimeInputs : sm_set_integration_time_with_unit(operation)
    \/ \E value \in PositionInputs : sm_set_boxcar_width(value)
    \/ \E value \in PositionInputs : sm_set_average_times(value)

SpecDevices == InitDevices /\ [][NextDevices]_vars

(* C4: every stored parameter value lies within its soft limits: the stage's
   position, velocity and acceleration, the sensor's two sampling intervals,
   and the spectrometer's integration time, boxcar width and average times. *)
SoftLimitInvariant ==
    /\ minimum <= sc.position /\ sc.position <= maximum
    /\ minimum <= sc.velocity /\ sc.velocity <= maximum
    /\ minimum <= sc.acceleration /\ sc.acceleration <= maximum
    /\ minimum <= sensor.temperature /\ sensor.temperature <= maximum
    /\ minimum <= sensor.humidity /\ sensor.humidity <= maximum
    /\ minimum <= spectrometer.integration_time /\ spectrometer.integration_time <= maximum
    /\ minimum <= spectrometer.boxcar_width /\ spectrometer.boxcar_width <= maximum
    /\ minimum <= spectrometer.average_times /\ spectrometer.average_times <= maximum

\* the stage sits on its limits after a batch whose position was rejected
SoftLimitInvariantWitness ==
    /\ last_call.result = SOFT_LIMIT_EXCEEDED
    /\ sc.position = minimum
    /\ sc.velocity = maximum
    /\ sc.acceleration = minimum

----------------------------------------------------------------------------
(* The sensor server in continuous sampling mode: a standard client turns
   the mode on and off through POST /parameter while clients subscribe over
   the WebSocket; the Stream Reader thread and the device run beside the
   event loop. *)

InitStreaming == InitStage("None") /\ InitOther /\ device = "sensor"

StreamingUpdates ==
    {ParameterUpdate(None, None, c) : c \in {"true", "false"}}

\* what the event loop runs between handlers; a handler that has not
\* returned keeps the loop
EventLoopSteps ==
    /\ stop_pc = "idle"
    /\ \/ \E s \in Sockets : ws_accept(s)
       \/ \E s \in Sockets : client_close(s, "closed_ok")
       \/ \E s \in Sockets : ws_connect_receive(s, [kind |-> "object", token |-> standard])
       \/ \E s \in Sockets : ws_connect_register(s)
       \/ BroadcastSteps

NextStreaming ==
    \/ \E parameter_update \in StreamingUpdates, reply \in DeviceReplies :
          http_set_parameter(standard, parameter_update, reply)
    \/ sensor_stop_receive
    \/ sensor_stop_join_packets
    \/ sensor_stop_return
    \/ device_burst
    \/ reader_check
    \/ reader_receive
    \/ reader_receive_timeout
    \/ \E caught \in BOOLEAN : reader_handled(caught)
    \/ EventLoopSteps

SpecStreaming == InitStreaming /\ [][NextStreaming]_vars

(* C12: command/response pairing on the sensor's session.  The frame that
   command() returns to its caller is the reply the device produced for that
   command, never a sample the sensor reported on its own; and the Stream
   Reader takes only samples from the queue, never the reply to a command. *)
CommandResponsePairing ==
    /\ sensor_last.frame.name = "reply" => sensor_last.frame.value = sensor_writes
    /\ sensor_last.frame.name # "sample"
    /\ reader_frame.name # "reply"

----------------------------------------------------------------------------
(* The device sessions of the stage and of the sensor, called directly, in
   front of a device that answers a command with OK, with something else
   or not at all.  The stage has its update hook installed. *)

\* what serial.readline() gives the stage's command(): the acknowledgement,
\* another line, or b'' after the read timeout
StageReplies == {"OK", "ERR", ""}

InitAck ==
    InitStage("WSDeviceStateUpdateSender") /\ InitOther
        /\ device \in {"linear_stage", "sensor"}

\* the stage's next answer
stage_device_reply(response) ==
    /\ device = "linear_stage"
    /\ ser_response # response
    /\ ser_response' = response
    /\ UNCHANGED <<sc, ser_writes, last_call, http_response, ws_vars, tasks,
                   other_device_vars>>

AckOperations ==
    {[acceleration |-> None, velocity |-> None, position |-> Logical(v)] :
        v \in PositionInputs}

NextAck ==
    \/ \E response \in StageReplies : stage_device_reply(response)
    \/ \E operation \in AckOperations : sc_stage_operation(operation)
    \/ \E value \in PositionInputs, reply \in DeviceReplies :
          sensor_set_temperature_sampling_interval(value, reply)
    \/ \E value \in PositionInputs, reply \in DeviceReplies :
          sensor_set_humidity_sampling_interval(value, reply)
    \/ \E i \in 1 .. MaxUpdates : broadcast_start(i)

SpecAck == InitAck /\ [][NextAck]_vars

(* C13: a stored parameter value changes, and an update is published, only
   when the device acknowledged the command with OK: a step that changes the
   stage's position or publishes an update is one where the stage answered
   OK, and a step that changes a sampling interval of the sensor is one
   where command() returned {"result": "OK"}. *)
MutationOnlyAfterAcknowledgement ==
    [][/\ (sc'.position # sc.position \/ Len(tasks') > Len(tasks))
             => ser_response = "OK"
       /\ sensor' # sensor => sensor_last'.reply = "OK"]_vars

----------------------------------------------------------------------------
(* Two clients with standard tokens operate the stage over the persistent
   channel, each sending operations with and without an id. *)

PairingSockets == {1, 2}

PairingMessages ==
    {[kind |-> "operation", id |-> i,
      operation |-> [acceleration |-> None, velocity |-> None,
                     position |-> Logical(v)]] :
        i \in {0, 7}, v \in {maximum, maximum + 1}}

\* operations answered per client: the first sends one more than a client
\* of the other runs, the second sends one
PairingLimit(s) == IF s = 1 THEN MaxResults + 1 ELSE 1

NextPairing ==
    \/ \E s \in PairingSockets : ws_accept(s)
    \/ \E s \in PairingSockets :
          ws_connect_receive(s, [kind |-> "object", token |-> standard])
    \/ \E s \in PairingSockets : ws_connect_register(s)
    \/ \E s \in PairingSockets, msg \in PairingMessages :
          Answered(s) < PairingLimit(s) /\ ws_run_receive(s, msg)
    \/ \E s \in PairingSockets : ws_run_send(s)
    \/ BroadcastSteps

SpecPairing == Init /\ [][NextPairing]_vars

\* the result messages a socket has been sent, in order
Results(s) == SelectSeq(inbox[s], LAMBDA m : m.type = "result")

\* the result message that answers a logged operation
ResultFor(entry) == Msg("result", entry.result, 0, entry.id)

(* C14: on a session with standard access, the result messages a socket has
   been sent are the answers to the operations received on that socket, one
   for each, in the order of receipt, each carrying the operation's id (0:
   none supplied) and its result code; the one operation not yet answered
   is the last received and its answer is the message being sent to that
   socket.  No socket is sent a result for an operation of another. *)
ResultPairing ==
    \A s \in Sockets :
        LET results == Results(s)
            log == ws_log[s]
        IN /\ Len(results) <= Len(log)
           /\ \A k \in 1 .. Len(results) : results[k] = ResultFor(log[k])
           /\ Len(log) <= Len(results) + 1
           /\ Len(log) = Len(results) + 1 =>
                  /\ ws_pc[s] = "run_send"
                  /\ ws_pending[s] = ResultFor(log[Len(log)])
           /\ Len(log) = Len(results) => ws_pc[s] # "run_send"

\* one socket was answered twice, without and with an id and with different
\* codes, while the other got one result of its own
ResultPairingWitness ==
    /\ Len(Results(1)) = 2
    /\ Results(1)[1].id = 0 /\ Results(1)[2].id = 7
    /\ Results(1)[1].name # Results(1)[2].name
    /\ Len(Results(2)) = 1
    /\ Results(2)[1] # Results(1)[1]

----------------------------------------------------------------------------
(* A readonly and a standard client on the persistent channel: both are
   registered by the handshake, both send operations and messages that are
   no operation, and either may close its connection. *)

ReadonlyTokens == {readonly, standard}

ReadonlyMessages ==
    {[kind |-> "invalid"]}
        \cup {[kind |-> "operation", id |-> i,
               operation |-> [acceleration |-> None, velocity |-> None,
                              position |-> Logical(maximum)]] : i \in {0, 7}}

NextReadonly ==
    \/ \E s \in PairingSockets : ws_accept(s)
    \/ \E s \in PairingSockets : client_close(s, "closed_ok")
    \/ \E s \in PairingSockets : ws_receive_disconnect(s)
    \/ \E s \in PairingSockets, token \in ReadonlyTokens :
          ws_connect_receive(s, [kind |-> "object", token |-> token])
    \/ \E s \in PairingSockets : ws_connect_register(s)
    \/ \E s \in PairingSockets : ws_send_fails(s)
    \/ \E s \in PairingSockets, msg \in ReadonlyMessages :
          Answered(s) = 0 /\ ws_run_receive(s, msg)
    \/ \E s \in PairingSockets : ws_run_send(s)
    \/ \E s \in PairingSockets : ws_error_send(s)
    \/ BroadcastSteps

SpecReadonly == Init /\ [][NextReadonly]_vars

InsufficientAccessLevel == Msg("error", "Insufficient Access Level", 0, 0)

\* the endpoint of socket s takes a step while its client is connected
Steps(s) == ws_pc'[s] # ws_pc[s] /\ peer[s] = "open"

(* C15: when a session below standard sends a JSON message on the
   persistent channel, the device session is not invoked: the stage, the
   commands written and the scheduled broadcasts are as before, and the
   endpoint goes on to send {"error": "Insufficient Access Level"}.  When
   that send returns, the error is the last message of the socket, the
   connection is closed with 1008 and the session's record is gone. *)
ReadonlyOperationRejected ==
    [][\A s \in Sockets :
          /\ (/\ ws_pc[s] = "run_receive"
              /\ ~check_access_level(ws_item[s], standard)
              /\ Steps(s))
                 => /\ UNCHANGED <<stage_vars, tasks, inbox, ws_log>>
                    /\ ws_pc'[s] = "error_send"
                    /\ ws_pending'[s] = InsufficientAccessLevel
          /\ (/\ ws_pc[s] = "error_send"
              /\ ws_pending[s] = InsufficientAccessLevel
              /\ Steps(s))
                 => /\ UNCHANGED <<stage_vars, tasks>>
                    /\ inbox'[s] = Append(inbox[s], InsufficientAccessLevel)
                    /\ ws_pc'[s] = "ended"
                    /\ close_code'[s] = WS_1008_POLICY_VIOLATION
                    /\ ws_wsid[s] \notin DOMAIN active_connections']_vars

\* a readonly session was turned away while a standard one moved the stage
ReadonlyOperationRejectedWitness ==
    \E s, t \in Sockets :
        /\ ws_item[s] = readonly
        /\ ws_pc[s] = "ended"
        /\ close_code[s] = WS_1008_POLICY_VIOLATION
        /\ Count(inbox[s], InsufficientAccessLevel) = 1
        /\ ws_wsid[s] # 0 /\ ws_wsid[s] \notin DOMAIN active_connections
        /\ ws_item[t] = standard
        /\ Answered(t) = 1
        /\ sc.position = maximum

----------------------------------------------------------------------------
(* The HTTP surfaces of the stage server and of the sensor server, called
   with every kind of token: none or an invalid one (0), readonly, standard
   and advanced. *)

InitAuth ==
    InitStage("WSDeviceStateUpdateSender") /\ InitOther
        /\ device \in {"linear_stage", "sensor"}

AuthPositions == {default_value, maximum, maximum + 1}

AuthDisplacements ==
    {[value |-> [m |-> k * StepValue, e |-> 0, err |-> 0], unit |-> StepUnit] :
        k \in AuthPositions}

AuthUpdates ==
    {ParameterUpdate(t, h, "None") :
        t, h \in {None, [value |-> [m |-> maximum, e |-> 0, err |-> 0], unit |-> "us"]}}

StageRequests ==
    /\ device = "linear_stage"
    /\ Idle
    /\ \E token \in Tokens :
          \/ http_get_position(token)
          \/ \E target \in AuthPositions : http_set_position(token, target)
          \/ http_get_absolute_position(token)
          \/ \E operation \in AuthDisplacements :
                http_set_absolute_position(token, operation)
          \/ \E operation \in AckOperations : http_stage_operation(token, operation)

SensorRequests ==
    \E token \in Tokens :
        \/ http_get_parameter(token)
        \/ \E parameter_update \in AuthUpdates, reply \in {"OK", "FAIL"} :
              http_set_parameter(token, parameter_update, reply)

NextAuth ==
    \/ StageRequests
    \/ SensorRequests
    \/ \E i \in 1 .. MaxUpdates : broadcast_start(i)

SpecAuth == InitAuth /\ [][NextAuth]_vars

\* what a device session holds and has transmitted
device_state == <<sc, ser_writes, sensor, sensor_writes>>

(* C16: an HTTP request that changes the state of a device, transmits a
   command to it or schedules a broadcast carries a valid token of at least
   standard level, and so does every POST answered 200; every GET answered
   200, which is every read of a position or a parameter, carries a valid
   token of at least readonly level.  A request that fails the check leaves
   the device session as it was. *)
HttpAuthorization ==
    [][LET token == http_response'.token
       IN /\ (device_state' # device_state \/ Len(tasks') > Len(tasks))
                 => Granted(token, standard)
          /\ http_response'.status = 200
                 => Granted(token, IF http_response'.req \in
                                        {"GET /position", "GET /absolute_position",
                                         "GET /parameter"}
                                   THEN readonly ELSE standard)
          /\ http_response'.status \in {401, 403}
                 => UNCHANGED <<device_state, tasks>>]_vars

\* a readonly token is refused a write after a standard token moved the stage
HttpAuthorizationWitness ==
    /\ http_response.req = "POST /position"
    /\ http_response.token = readonly
    /\ http_response.status = 403
    /\ sc.position = maximum
    /\ ser_writes > 0

(* C17: when stop_continuous_sampling_mode transmits the stop_continuous_mode
   command, the Stream Reader has been told to exit (the running flag is
   cleared) and has terminated. *)
ReaderJoinedBeforeStopCommand ==
    [][(stop_pc = "idle" /\ stop_pc' = "receive")
          => /\ ~continuous_sampling_mode_running
             /\ ~Alive(continuous_sampling_mode_thread)]_vars

\* the sample messages a socket has been sent
Samples(s) == Cardinality({k \in 1 .. Len(inbox[s]) : inbox[s][k].name = "sample"})

(* C18: after stop_continuous_sampling_mode has returned, and until
   continuous mode is started again, no sample message is delivered to any
   subscriber, whenever its broadcast was scheduled. *)
NoSampleAfterStop ==
    [][stopped => \A s \in Sockets : Samples(s)' = Samples(s)]_vars

(* C19: the Stream Reader is spawned only by a start whose enable command
   the device acknowledged with OK; and after a start whose acknowledgement
   was missing, malformed or not OK, the call has returned
   response_validation_failure or device_error and no Stream Reader runs. *)
StartProtocol ==
    [][/\ (Alive(continuous_sampling_mode_thread') /\ ~Alive(continuous_sampling_mode_thread))
             => /\ sensor_last'.op = "start_continuous_sampling_mode"
                /\ sensor_last'.reply = "OK"
       /\ (/\ sensor_last'.op = "start_continuous_sampling_mode"
           /\ sensor_last'.reply \in {"FAIL", "error", "no_result", "None"})
             => /\ sensor_last'.result \in {RESPONSE_VALIDATION_FAILURE, DEVICE_ERROR}
                /\ ~Alive(continuous_sampling_mode_thread')]_vars

(* C20: when no reply to a set_parameter command arrives before the
   timeout, the setter returns serial_RW_failure, the stored sampling
   intervals are as before and the command has been written at most
   twice. *)
TransportFailureSurfaced ==
    [][(sensor_writes' # sensor_writes /\ sensor_last'.reply = "None")
          => /\ sensor_last'.result = SERIAL_RW_FAILURE
             /\ sensor' = sensor
             /\ sensor_writes' <= sensor_writes + 2]_vars

(* C21: a sampling interval setter of the sensor that is answered with the
   device's error reply {"error": ...} returns device_error; answered with a
   map that is neither an acknowledgement nor an error it returns
   response_validation_failure; in both cases the command was written once
   and the stored intervals are as before. *)
DeviceAndValidationErrors ==
    [][(sensor_writes' # sensor_writes /\ sensor_last'.op = "set_sampling_interval")
          => /\ sensor_last'.reply = "error"
                   => /\ sensor_last'.result = DEVICE_ERROR
                      /\ sensor' = sensor
                      /\ sensor_writes' = sensor_writes + 1
             /\ sensor_last'.reply = "no_result"
                   => /\ sensor_last'.result = RESPONSE_VALIDATION_FAILURE
                      /\ sensor' = sensor
                      /\ sensor_writes' = sensor_writes + 1]_vars

----------------------------------------------------------------------------
(* Batched operations that name the target position twice: as a logical
   position under "position" and as a physical one under
   "absolute_position".  They come in through POST / and through the
   persistent channel. *)

\* a declared field of StageOperation: the value supplied or the default None
Field(received, name) ==
    IF name \in DOMAIN received THEN received[name] ELSE None

\* StageOperation(**received): the model declares acceleration, velocity and
\* position and has no configuration, so any other key is ignored
StageOperation(received) ==
    [acceleration |-> Field(received, "acceleration"),
     velocity |-> Field(received, "velocity"),
     position |-> Field(received, "position")]

BatchMessages ==
    {[position |-> Logical(v), absolute_position |-> Physical(x.value, x.unit)] :
        v \in {minimum, default_value, maximum + 1},
        x \in {d \in DisplacementInputs : d.unit = "um"}}

NextBatch ==
    \/ \E token \in {readonly, standard}, received \in BatchMessages :
          Idle /\ http_stage_operation(token, StageOperation(received))
    \/ ws_accept(1)
    \/ ws_connect_receive(1, [kind |-> "object", token |-> standard])
    \/ ws_connect_register(1)
    \/ \E received \in BatchMessages, i \in {0, 7} :
          /\ Answered(1) < MaxResults
          /\ ws_run_receive(1, [kind |-> "operation", id |-> i,
                                operation |-> StageOperation(received)])
    \/ ws_run_send(1)
    \/ BroadcastSteps

SpecBatch == Init /\ [][NextBatch]_vars

(* C22: an operation that supplies both position and absolute_position is
   answered invalid_action, over HTTP and over the persistent channel, and
   the stage is not contacted and keeps its position. *)
ContradictoryBatchRejected ==
    [][/\ sc'.position = sc.position
       /\ ser_writes' = ser_writes
       /\ (http_response' # http_response /\ http_response'.status = 200)
             => http_response'.result = INVALID_ACTION
       /\ \A s \in Sockets :
             ws_log'[s] # ws_log[s]
                 => ws_log'[s][Len(ws_log'[s])].result = INVALID_ACTION]_vars

----------------------------------------------------------------------------
(* One operation through both surfaces: POST /position on the HTTP side,
   a {"position": v} message on the persistent channel. *)

NextSurfaces ==
    \/ \E target \in PositionInputs : Idle /\ http_set_position(standard, target)
    \/ ws_accept(1)
    \/ ws_connect_receive(1, [kind |-> "object", token |-> standard])
    \/ ws_connect_register(1)
    \/ \E v \in PositionInputs :
          /\ Answered(1) < MaxResults
          /\ ws_run_receive(1, [kind |-> "operation", id |-> 0,
                                operation |-> StageOperation([position |-> Logical(v)])])
    \/ ws_run_send(1)
    \/ BroadcastSteps

SpecSurfaces == Init /\ [][NextSurfaces]_vars

\* what a call leaves behind and answers: the controller's fields, the frames
\* written, the updates published, the result code
Outcome(r) ==
    [sc |-> r.w.sc, writes |-> r.w.writes, updates |-> r.w.updates, result |-> r.result]

(* C23: in every state, setting the position, the velocity or the
   acceleration to a value has the same outcome through the HTTP surface
   (set_position, set_velocity, set_acceleration as the endpoints call them)
   and through the persistent channel (stage_operation on the parsed
   message): the same result code, the same stage state, the same frames
   written and the same updates published. *)
TwoSurfaceCoherence ==
    \A v \in PositionInputs :
        /\ Outcome(set_position(World, v))
               = Outcome(stage_operation(World, StageOperation([position |-> Logical(v)])))
        /\ Outcome(set_velocity(World, v))
               = Outcome(stage_operation(World, StageOperation([velocity |-> Logical(v)])))
        /\ Outcome(set_acceleration(World, v))
               = Outcome(stage_operation(World,
                                         StageOperation([acceleration |-> Logical(v)])))

----------------------------------------------------------------------------
(* Shutdown and a new startup of the stage server.  lifespan stops the
   controller and dumps hardware_config; the new process loads the file and
   builds its controller from it.  The velocity and the acceleration live in
   config.parameter.*.value and are dumped as they stand.  The position lives
   in self.position, an int copied from config.parameter.position.default_value
   by __init__; set_position assigns the attribute and nothing writes the
   config entry. *)

\* what dump_hardware_config writes for the three parameters
dump_hardware_config(controller) ==
    [position_default_value |-> default_value,
     velocity |-> controller.velocity,
     acceleration |-> controller.acceleration]

\* LinearStageController.__init__ on a loaded configuration, then lifespan
LinearStageController(config, hook) ==
    [position |-> config.position_default_value, velocity |-> config.velocity,
     acceleration |-> config.acceleration, command_id |-> 0, update_hook |-> hook]

\* the controller of the next process
restart(controller) ==
    LinearStageController(dump_hardware_config(controller), controller.update_hook)

\* the server is shut down and started again; no client is connected
server_restart ==
    /\ device = "linear_stage"
    /\ Len(tasks) = 0
    /\ sc.command_id > 0
    /\ sc' = restart(sc)
    /\ ser_writes' = 0
    /\ last_call' = NoCall
    /\ http_response' = Response("none", 0, "", NoValue)
    /\ UNCHANGED <<ser_response, ws_vars, tasks, other_device_vars>>

RestartOperations ==
    {StageOperation([position |-> Logical(v)]) : v \in PositionInputs}
        \cup {StageOperation([velocity |-> Logical(v)]) : v \in PositionInputs}
        \cup {StageOperation([acceleration |-> Logical(v)]) : v \in PositionInputs}

NextRestart ==
    \/ \E operation \in RestartOperations : sc_stage_operation(operation)
    \/ server_restart
    \/ \E i \in 1 .. MaxUpdates : broadcast_start(i)

SpecRestart == Init /\ [][NextRestart]_vars

(* C24: a new startup reports the position, the velocity and the
   acceleration that were current at shutdown. *)
StateSurvivesRestart ==
    [][sc'.command_id < sc.command_id
          => /\ get_position([sc |-> sc']) = get_position([sc |-> sc])
             /\ sc'.velocity = sc.velocity
             /\ sc'.acceleration = sc.acceleration]_vars

----------------------------------------------------------------------------
(* Two connections that end in every way an endpoint task can end: the
   client closes (normally or not) before, during or after the handshake,
   the first message is malformed or its token refused, a later message is
   no JSON, no operation or not permitted, or a send fails. *)

LifetimeMessages ==
    {[kind |-> "not_json"], [kind |-> "invalid"],
     [kind |-> "operation", id |-> 0,
      operation |-> StageOperation([position |-> Logical(maximum)])]}

NextLifetime ==
    \/ \E s \in PairingSockets : ws_accept(s)
    \/ \E s \in PairingSockets, how \in {"closed_ok", "closed_error"} : client_close(s, how)
    \/ \E s \in PairingSockets : ws_receive_disconnect(s)
    \/ \E s \in PairingSockets, msg \in FirstMessages : ws_connect_receive(s, msg)
    \/ \E s \in PairingSockets : ws_connect_register(s)
    \/ \E s \in PairingSockets : ws_send_fails(s)
    \/ \E s \in PairingSockets, msg \in LifetimeMessages :
          Answered(s) = 0 /\ ws_run_receive(s, msg)
    \/ \E s \in PairingSockets : ws_run_send(s)
    \/ \E s \in PairingSockets : ws_error_send(s)
    \/ BroadcastSteps

SpecLifetime == Init /\ [][NextLifetime]_vars

\* the per-connection task of socket s is running
Running(s) == ws_pc[s] \notin {"new", "ended"}

(* C25: an endpoint task that has ended has no record in
   active_connections, and every record the manager holds belongs to a
   socket whose endpoint task is running. *)
SessionLifetime ==
    /\ \A s \in Sockets :
          ws_pc[s] = "ended" => ws_wsid[s] \notin DOMAIN active_connections
    /\ \A w \in DOMAIN active_connections :
          \E s \in Sockets : ws_wsid[s] = w /\ Running(s)
                                /\ active_connections[w].websocket = s

\* both sessions were registered and have ended, one closed by the server
\* with 1008, the other by its client; the manager holds nothing
SessionLifetimeWitness ==
    /\ ws_wsid[1] # 0 /\ ws_pc[1] = "ended" /\ close_code[1] = WS_1008_POLICY_VIOLATION
    /\ ws_wsid[2] # 0 /\ ws_pc[2] = "ended" /\ peer[2] = "closed_error"
    /\ DOMAIN active_connections = {}

----------------------------------------------------------------------------
(* Two subscribers stay connected while positions are set.  The event loop
   runs every coroutine that is ready: a scheduled broadcast starts, and a
   send to the second subscriber completes.  The first subscriber is
   sluggish: a send to it may take any time and may never complete, so no
   fairness is assumed for it. *)

Sluggish == 1

Registered == {s \in Sockets : ws_pc[s] = "run_receive"}

NextSluggish ==
    \/ \E s \in PairingSockets : ws_accept(s)
    \/ \E s \in PairingSockets :
          ws_connect_receive(s, [kind |-> "object", token |-> standard])
    \/ \E s \in PairingSockets : ws_connect_register(s)
    \/ \E target \in FanoutTargets :
          Registered = PairingSockets /\ http_set_position(standard, target)
    \/ BroadcastSteps

SpecSluggish ==
    /\ Init
    /\ [][NextSluggish]_vars
    /\ WF_vars(\E i \in 1 .. MaxUpdates : broadcast_start(i))
    /\ WF_vars(\E i \in 1 .. MaxUpdates :
                  /\ i <= Len(tasks)
                  /\ tasks[i].sock # Sluggish
                  /\ broadcast_send(i))

\* the broadcast of the i-th update has sent it to socket s
DeliveredTo(i, s) ==
    /\ i <= Len(tasks)
    /\ \E k \in 1 .. Len(tasks[i].delivered) : tasks[i].delivered[k] = ws_wsid[s]

(* C26: when the send to one subscriber does not complete, every event
   published while the other subscriber is registered is still eventually
   delivered to that other subscriber: the first event and every later
   one. *)
SluggishSubscriberDoesNotStall ==
    \A i \in 1 .. MaxUpdates :
        (i <= Len(tasks)) ~> (\A s \in PairingSockets \ {Sluggish} : DeliveredTo(i, s))

(* C27: publishing an event never makes the device session wait for a
   consumer: the Stream Reader, having handed a sample to the update bus, is
   never held until the broadcast of that sample has run. *)
PublishingNeverWaits ==
    continuous_sampling_mode_thread = "handle"
        => \A i \in Handled : tasks[i].pc \in {"done", "raised"}

----------------------------------------------------------------------------
(* The client library: the three threads of RemoteLinearStage, close and
   websocket_command.  The server is the environment of the client: it
   answers the messages of a connection in their order, after any delay,
   and it may end a connection at any time. *)

server_vars == <<stage_vars, http_response, ws_vars, tasks, sensor, sensor_writes,
                 spectrometer, device, sensor_last, streaming_vars>>

Exited(thread) == thread \in {"exited", "raised"}

\* one pass of __authentication_watchdog_task from its loop test to its sleep;
\* handle_reauthenticate catches every exception of authenticate
authentication_watchdog_task(expired) ==
    /\ authentication_watchdog_thread = "check"
    /\ IF authentication_watchdog_running
       THEN /\ pending_reauthentication' = expired
            /\ authentication_watchdog_thread' = "sleep"
       ELSE /\ authentication_watchdog_thread' = "exited"
            /\ UNCHANGED pending_reauthentication
    /\ UNCHANGED <<authentication_watchdog_running, stage_state_watchdog_running,
                   stage_state_watchdog_thread, channel_vars, command_vars, close_pc,
                   server_vars>>

authentication_watchdog_sleep ==
    /\ authentication_watchdog_thread = "sleep"
    /\ authentication_watchdog_thread' = "check"
    /\ UNCHANGED <<authentication_watchdog_running, stage_state_watchdog_running,
                   stage_state_watchdog_thread, pending_reauthentication, channel_vars,
                   command_vars, close_pc, server_vars>>

\* r of the state watchdog when the body it holds has no "value"
NoPosition == maximum + 2

\* what a GET request of the state watchdog comes to: the body of a 200, the
\* body of a 401 (which has no "value"), or an exception of requests
PollReplies == {"ok", "unauthorized", "RequestException"}

\* __stage_state_watchdog_task from its loop test to the return of
\* rest_get_position: the server's position is read, or restful_get raises
\* and nothing in the task catches it
stage_state_watchdog_task(reply) ==
    /\ stage_state_watchdog_thread = "poll"
    /\ stage_state_watchdog_thread' =
          IF ~stage_state_watchdog_running THEN "exited"
          ELSE IF reply = "RequestException" THEN "raised" ELSE "store"
    /\ poll_reply' =
          IF ~stage_state_watchdog_running \/ reply = "RequestException" THEN poll_reply
          ELSE IF reply = "ok" THEN sc.position ELSE NoPosition
    /\ UNCHANGED <<authentication_watchdog_running, stage_state_watchdog_running,
                   authentication_watchdog_thread, pending_reauthentication,
                   channel_vars, websocket_command_status, websocket_command_id, call,
                   results_handled, command_threads, client_position, close_pc,
                   server_vars>>

\* self.position = r["value"], which raises KeyError on the body of a 401;
\* then rest_get_parameter, whose reply is stored whatever it is
stage_state_watchdog_store(reply) ==
    /\ stage_state_watchdog_thread = "store"
    /\ IF poll_reply = NoPosition
       THEN /\ stage_state_watchdog_thread' = "raised"
            /\ UNCHANGED client_position
       ELSE /\ client_position' = poll_reply
            /\ stage_state_watchdog_thread' =
                   IF reply = "RequestException" THEN "raised" ELSE "sleep"
    /\ UNCHANGED <<authentication_watchdog_running, stage_state_watchdog_running,
                   authentication_watchdog_thread, pending_reauthentication,
                   channel_vars, websocket_command_status, websocket_command_id, call,
                   results_handled, command_threads, poll_reply, close_pc,
                   server_vars>>

stage_state_watchdog_sleep ==
    /\ stage_state_watchdog_thread = "sleep"
    /\ stage_state_watchdog_thread' = "poll"
    /\ UNCHANGED <<authentication_watchdog_running, stage_state_watchdog_running,
                   authentication_watchdog_thread, pending_reauthentication,
                   channel_vars, command_vars, close_pc, server_vars>>

----------------------------------------------------------------------------
(* __websocket_handler_task.  A connection is
   [state, sent, incoming, served]: sent are the messages the client wrote
   on it, incoming the messages of the server the client has not read yet,
   served how many of sent the server has answered. *)

Connection == [state |-> "open", sent |-> <<>>, incoming |-> <<>>, served |-> 0]

\* the local variable ws of the handler: the connection it opened last
ws == Len(links)

\* ws.close(), and the end of a connection by the server
Closed(n) == [links EXCEPT ![n].state = "closed"]

\* the loop test and connect(endpoint): the loop ends when the flag is off;
\* connect returns a connection, or raises what the handler does not catch
\* (OSError, InvalidHandshake, TimeoutError are no ConnectionClosed)
websocket_handler_connect(outcome) ==
    /\ websocket_handler_thread = "loop"
    /\ IF ~websocket_handler_running
       THEN /\ websocket_handler_thread' = "exited"
            /\ UNCHANGED links
       ELSE /\ Len(links) < MaxLinks
            /\ IF outcome = "opened"
               THEN /\ links' = Append(links, Connection)
                    /\ websocket_handler_thread' = "opened"
               ELSE /\ websocket_handler_thread' = "raised"
                    /\ UNCHANGED links
    /\ UNCHANGED <<watchdog_vars, websocket_handler_running, websocket_connection,
                   command_vars, close_pc, server_vars>>

\* ws.send(auth_msg)
websocket_handler_send_token ==
    /\ websocket_handler_thread = "opened"
    /\ IF links[ws].state = "open"
       THEN /\ links' = [links EXCEPT ![ws].sent = Append(@, [type |-> "token"])]
            /\ websocket_handler_thread' = "recv_auth"
       ELSE /\ websocket_handler_thread' = "loop"
            /\ UNCHANGED links
    /\ UNCHANGED <<watchdog_vars, websocket_handler_running, websocket_connection,
                   command_vars, close_pc, server_vars>>

\* result = ws.recv(); self.websocket_connection = ws
websocket_handler_recv_auth ==
    /\ websocket_handler_thread = "recv_auth"
    /\ IF links[ws].incoming # <<>>
       THEN /\ links' = [links EXCEPT ![ws].incoming = Tail(@)]
            /\ websocket_connection' = ws
            /\ websocket_handler_thread' = "recv"
       ELSE /\ links[ws].state = "closed"
            /\ websocket_handler_thread' = "loop"
            /\ UNCHANGED <<links, websocket_connection>>
    /\ UNCHANGED <<watchdog_vars, websocket_handler_running, command_vars, close_pc,
                   server_vars>>

\* handle_websocket_message of a message of the model: a result carries id,
\* a pushed update of the position carries position
handle_websocket_message(message) ==
    /\ IF "id" \in DOMAIN message
       THEN /\ websocket_command_status' =
                  [websocket_command_status EXCEPT ![message.id] = message.result]
            /\ results_handled' = results_handled \cup {message.call}
       ELSE UNCHANGED <<websocket_command_status, results_handled>>
    /\ client_position' =
          IF "position" \in DOMAIN message THEN message.position ELSE client_position

\* while True: message = ws.recv(); self.handle_websocket_message(message)
websocket_handler_recv ==
    /\ websocket_handler_thread = "recv"
    /\ IF links[ws].incoming # <<>>
       THEN /\ handle_websocket_message(Head(links[ws].incoming))
            /\ links' = [links EXCEPT ![ws].incoming = Tail(@)]
            /\ UNCHANGED websocket_handler_thread
       ELSE /\ links[ws].state = "closed"
            /\ websocket_handler_thread' = "loop"
            /\ UNCHANGED <<links, websocket_command_status, results_handled,
                           client_position>>
    /\ UNCHANGED <<watchdog_vars, websocket_handler_running, websocket_connection,
                   websocket_command_id, call, command_threads, poll_reply, close_pc,
                   server_vars>>

\* the server answers the next message of connection n: the token with
\* {"auth_result": "success"}, a command with {"result": ..., "id": ...}
server_answer(n) ==
    /\ n <= Len(links)
    /\ links[n].state = "open"
    /\ links[n].served < Len(links[n].sent)
    /\ LET message == links[n].sent[links[n].served + 1]
           answer == IF message.type = "token"
                     THEN [auth_result |-> "success"]
                     ELSE [result |-> "OK", id |-> message.id, call |-> message.call]
       IN  links' = [links EXCEPT ![n].served = @ + 1,
                                  ![n].incoming = Append(@, answer)]
    /\ UNCHANGED <<watchdog_vars, websocket_handler_running, websocket_handler_thread,
                   websocket_connection, command_vars, close_pc, server_vars>>

\* the server, or the network, ends connection n
server_close(n) ==
    /\ n <= Len(links)
    /\ links[n].state = "open"
    /\ links' = Closed(n)
    /\ UNCHANGED <<watchdog_vars, websocket_handler_running, websocket_handler_thread,
                   websocket_connection, command_vars, close_pc, server_vars>>

----------------------------------------------------------------------------
(* close: close_watchdogs, then close_websockets *)

\* close_watchdogs up to the first join
close_watchdogs ==
    /\ close_pc = "idle"
    /\ authentication_watchdog_running' = FALSE
    /\ close_pc' = "join_authentication_watchdog"
    /\ UNCHANGED <<stage_state_watchdog_running, authentication_watchdog_thread,
                   stage_state_watchdog_thread, pending_reauthentication, channel_vars,
                   command_vars, server_vars>>

\* authentication_watchdog_thread.join() returns
close_watchdogs_joined_authentication ==
    /\ close_pc = "join_authentication_watchdog"
    /\ Exited(authentication_watchdog_thread)
    /\ stage_state_watchdog_running' = FALSE
    /\ close_pc' = "join_stage_state_watchdog"
    /\ UNCHANGED <<authentication_watchdog_running, authentication_watchdog_thread,
                   stage_state_watchdog_thread, pending_reauthentication, channel_vars,
                   command_vars, server_vars>>

\* stage_state_watchdog_thread.join() returns and close_websockets runs up to
\* its join: self.websocket_connection.close() raises AttributeError on None
close_websockets ==
    /\ close_pc = "join_stage_state_watchdog"
    /\ Exited(stage_state_watchdog_thread)
    /\ websocket_handler_running' = FALSE
    /\ IF websocket_connection = 0
       THEN /\ close_pc' = "AttributeError"
            /\ UNCHANGED links
       ELSE /\ links' = Closed(websocket_connection)
            /\ close_pc' = "join_websocket_handler"
    /\ UNCHANGED <<watchdog_vars, websocket_handler_thread, websocket_connection,
                   command_vars, server_vars>>

\* websocket_handler_thread.join() returns, and close returns
close_websockets_joined ==
    /\ close_pc = "join_websocket_handler"
    /\ Exited(websocket_handler_thread)
    /\ close_pc' = "returned"
    /\ UNCHANGED <<watchdog_vars, channel_vars, command_vars, server_vars>>

----------------------------------------------------------------------------
(* The client and its close.  Every thread of the client that can take a
   step eventually takes it, and the server answers a message it was sent
   unless the connection ends first; nothing obliges the server to end a
   connection. *)

WatchdogSteps ==
    \/ \E expired \in BOOLEAN : authentication_watchdog_task(expired)
    \/ authentication_watchdog_sleep
    \/ \E reply \in PollReplies : stage_state_watchdog_task(reply)
    \/ \E reply \in PollReplies : stage_state_watchdog_store(reply)
    \/ stage_state_watchdog_sleep

HandlerSteps ==
    \/ \E outcome \in {"opened", "refused"} : websocket_handler_connect(outcome)
    \/ websocket_handler_send_token
    \/ websocket_handler_recv_auth
    \/ websocket_handler_recv

ServerSteps ==
    \/ \E n \in 1 .. MaxLinks : server_answer(n)
    \/ \E n \in 1 .. MaxLinks : server_close(n)

CloseSteps ==
    \/ close_watchdogs
    \/ close_watchdogs_joined_authentication
    \/ close_websockets
    \/ close_websockets_joined

NextClose == WatchdogSteps \/ HandlerSteps \/ ServerSteps \/ CloseSteps

ThreadsRun ==
    /\ WF_vars(\E expired \in BOOLEAN : authentication_watchdog_task(expired))
    /\ WF_vars(authentication_watchdog_sleep)
    /\ WF_vars(\E reply \in PollReplies : stage_state_watchdog_task(reply))
    /\ WF_vars(\E reply \in PollReplies : stage_state_watchdog_store(reply))
    /\ WF_vars(stage_state_watchdog_sleep)
    /\ WF_vars(\E outcome \in {"opened", "refused"} : websocket_handler_connect(outcome))
    /\ WF_vars(websocket_handler_send_token)
    /\ WF_vars(websocket_handler_recv_auth)
    /\ WF_vars(websocket_handler_recv)
    /\ WF_vars(\E n \in 1 .. MaxLinks : server_answer(n))

SpecClose ==
    Init /\ [][NextClose]_vars /\ ThreadsRun /\ WF_vars(CloseSteps)

(* C28: once close has been called, in whatever state the channel is, the
   three threads exit and close returns. *)
CloseTerminates ==
    (close_pc # "idle")
        ~> (/\ close_pc = "returned"
            /\ Exited(authentication_watchdog_thread)
            /\ Exited(stage_state_watchdog_thread)
            /\ Exited(websocket_handler_thread))

----------------------------------------------------------------------------
(* websocket_command.  cid 0 is None; timeout -1 is None, and time passes
   for the caller in its polls: elapsed counts the sleeps of the call. *)

\* websocket_command up to its wait: self.websocket_connection.send raises
\* AttributeError on None and ConnectionClosed on a closed connection
websocket_command(cid_arg, timeout) ==
    /\ call.pc # "wait"
    /\ call.n < MaxCalls
    /\ LET cid == IF cid_arg = 0 THEN websocket_command_id + 1 ELSE cid_arg
           this == [pc |-> "wait", cid |-> cid, timeout |-> timeout, elapsed |-> 0,
                    n |-> call.n + 1]
       IN  /\ websocket_command_id' = IF cid_arg = 0 THEN cid ELSE websocket_command_id
           /\ websocket_command_status' = [websocket_command_status EXCEPT ![cid] = "None"]
           /\ IF websocket_connection = 0
              THEN /\ call' = [this EXCEPT !.pc = "AttributeError"]
                   /\ UNCHANGED links
              ELSE IF links[websocket_connection].state = "closed"
              THEN /\ call' = [this EXCEPT !.pc = "ConnectionClosed"]
                   /\ UNCHANGED links
              ELSE /\ links' = [links EXCEPT ![websocket_connection].sent =
                                   Append(@, [type |-> "command", id |-> cid,
                                              call |-> this.n])]
                   /\ call' = [this EXCEPT !.pc = IF timeout = -1 THEN "returned"
                                                  ELSE "wait"]
    /\ UNCHANGED <<watchdog_vars, websocket_handler_running, websocket_handler_thread,
                   websocket_connection, results_handled, mirror_vars, close_pc,
                   server_vars>>

\* a wait loop that returns the cid without looking at the status of the command
websocket_command_poll_without_status ==
    /\ call.pc = "wait"
    /\ IF call.timeout # 0 /\ call.elapsed > call.timeout
       THEN call' = [call EXCEPT !.pc = "TimeoutError"]
       ELSE call' = [call EXCEPT !.pc = "returned"]
    /\ UNCHANGED <<watchdog_vars, channel_vars, websocket_command_status,
                   websocket_command_id, results_handled, mirror_vars, close_pc,
                   server_vars>>

\* one pass of the wait loop of websocket_command
websocket_command_poll ==
    /\ call.pc = "wait"
    /\ IF call.timeout # 0 /\ call.elapsed > call.timeout
       THEN call' = [call EXCEPT !.pc = "TimeoutError"]
       ELSE IF websocket_command_status[call.cid] # "None"
       THEN call' = [call EXCEPT !.pc = "returned"]
       ELSE call' = [call EXCEPT !.elapsed = IF call.timeout = 0 THEN 0 ELSE @ + 1]
    /\ UNCHANGED <<watchdog_vars, channel_vars, websocket_command_status,
                   websocket_command_id, results_handled, mirror_vars, close_pc,
                   server_vars>>

CommandSteps ==
    \/ \E cid \in 0 .. MaxCalls, timeout \in -1 .. MaxTimeout :
          websocket_command(cid, timeout)
    \/ websocket_command_poll

----------------------------------------------------------------------------
(* The channel handler, the server and the commands of a client that is
   not closed.  The handler and the caller of a command take their steps,
   and the server answers what it was sent. *)

NextReconnect == HandlerSteps \/ ServerSteps \/ CommandSteps

HandlerRuns ==
    /\ WF_vars(\E outcome \in {"opened", "refused"} : websocket_handler_connect(outcome))
    /\ WF_vars(websocket_handler_send_token)
    /\ WF_vars(websocket_handler_recv_auth)
    /\ WF_vars(websocket_handler_recv)
    /\ WF_vars(\E n \in 1 .. MaxLinks : server_answer(n))
    /\ WF_vars(websocket_command_poll)

SpecReconnect == Init /\ [][NextReconnect]_vars /\ HandlerRuns

\* connect has returned n connections, and the last one has ended or the
\* attempt after it has failed
Lost(n) ==
    /\ Len(links) = n
    /\ \/ websocket_handler_thread = "raised"
       \/ n > 0 /\ links[n].state = "closed"

(* C29: while the client is not closed, after the channel has ended or an
   attempt to connect has failed, the handler opens a new connection; and
   the first message the client sends on any connection is the token. *)
ChannelWatchdogReconnects ==
    /\ [](\A n \in 1 .. Len(links) :
              links[n].sent # <<>> => links[n].sent[1].type = "token")
    /\ \A n \in 0 .. MaxLinks - 1 :
          (websocket_handler_running /\ Lost(n))
              ~> (Len(links) > n \/ ~websocket_handler_running)

----------------------------------------------------------------------------
(* The commands of the client, without any assumption on progress *)

SpecCommand == Init /\ [][NextReconnect]_vars

(* C30: a call of websocket_command with a timeout returns only when the
   handler has stored the result message that answers this call; with a
   timeout above 0 it raises TimeoutError once the timeout has passed
   without that message; with timeout 0 it never raises TimeoutError. *)
BlockingCommand ==
    [][/\ (call'.pc = "returned" /\ call'.timeout # -1)
              => call'.n \in results_handled'
       /\ (/\ call.pc = "wait" /\ call.timeout > 0 /\ call.elapsed > call.timeout
           /\ call.n \notin results_handled /\ call' # call)
              => call'.pc = "TimeoutError"
       /\ call'.timeout = 0 => call'.pc # "TimeoutError"]_vars

\* no other command of this client carried the cid of the call
UniqueCid ==
    \A n \in 1 .. Len(links) : \A i \in 1 .. Len(links[n].sent) :
        LET message == links[n].sent[i]
        IN  (message.type = "command" /\ message.id = call.cid) => message.call = call.n

(* C30, for a cid that no other command of the client carried (every cid
   the client generates for a single caller is such): a call with a timeout
   returns only when the handler has stored the result message that
   answers this call; with a timeout above 0 it raises TimeoutError once
   the timeout has passed without that message; with timeout 0 it never
   raises TimeoutError. *)
BlockingCommandUniqueCid ==
    [][/\ (call'.pc = "returned" /\ call'.timeout # -1 /\ UniqueCid')
              => call'.n \in results_handled'
       /\ (/\ call.pc = "wait" /\ call.timeout > 0 /\ call.elapsed > call.timeout
           /\ call.n \notin results_handled /\ call' # call)
              => call'.pc = "TimeoutError"
       /\ call'.timeout = 0 => call'.pc # "TimeoutError"]_vars

\* the last call of the run, blocking without limit and with a cid of its
\* own, has returned after the handler stored its result
BlockingCommandWitness ==
    /\ call.pc = "returned"
    /\ call.timeout = 0
    /\ call.n = MaxCalls
    /\ UniqueCid
    /\ call.n \in results_handled

----------------------------------------------------------------------------
(* websocket_command without a cid, called from several threads.  The
   statement self.websocket_command_id += 1 reads the attribute, adds and
   writes it back, and cid = self.websocket_command_id reads it again;
   nothing in the client makes the three steps one. *)

\* the client's fields but for command_threads, websocket_command_id,
\* websocket_command_status and links
generation_unchanged ==
    <<watchdog_vars, websocket_handler_running, websocket_handler_thread,
      websocket_connection, call, results_handled, client_position, poll_reply,
      close_pc, server_vars>>

\* self.websocket_command_id += 1: the read
command_thread_load(t) ==
    /\ command_threads[t].pc = "idle"
    /\ command_threads' = [command_threads EXCEPT
                              ![t] = [pc |-> "loaded", loaded |-> websocket_command_id,
                                      cid |-> 0]]
    /\ UNCHANGED <<websocket_command_id, websocket_command_status, links,
                   generation_unchanged>>

\* self.websocket_command_id += 1: the write
command_thread_store(t) ==
    /\ command_threads[t].pc = "loaded"
    /\ websocket_command_id' = command_threads[t].loaded + 1
    /\ command_threads' = [command_threads EXCEPT ![t].pc = "stored"]
    /\ UNCHANGED <<websocket_command_status, links, generation_unchanged>>

\* cid = self.websocket_command_id, and the rest of websocket_command with
\* timeout None: the status is set to None, the command is sent
command_thread_send(t) ==
    /\ command_threads[t].pc = "stored"
    /\ LET cid == websocket_command_id
       IN  /\ websocket_command_status' = [websocket_command_status EXCEPT ![cid] = "None"]
           /\ IF websocket_connection = 0
              THEN /\ command_threads' = [command_threads EXCEPT
                                             ![t].pc = "AttributeError", ![t].cid = cid]
                   /\ UNCHANGED links
              ELSE IF links[websocket_connection].state = "closed"
              THEN /\ command_threads' = [command_threads EXCEPT
                                             ![t].pc = "ConnectionClosed", ![t].cid = cid]
                   /\ UNCHANGED links
              ELSE /\ links' = [links EXCEPT ![websocket_connection].sent =
                                   Append(@, [type |-> "command", id |-> cid,
                                              call |-> t])]
                   /\ command_threads' = [command_threads EXCEPT
                                             ![t].pc = "returned", ![t].cid = cid]
    /\ UNCHANGED <<websocket_command_id, generation_unchanged>>

NextGeneration ==
    \/ HandlerSteps
    \/ \E n \in 1 .. MaxLinks : server_answer(n)
    \/ \E t \in CommandThreads : command_thread_load(t)
    \/ \E t \in CommandThreads : command_thread_store(t)
    \/ \E t \in CommandThreads : command_thread_send(t)

SpecGeneration == Init /\ [][NextGeneration]_vars

(* C31: two calls of websocket_command without a cid, from whatever
   threads, get different cids. *)
UniqueInternalCommandIds ==
    \A t, u \in CommandThreads :
        (t # u /\ command_threads[t].cid # 0 /\ command_threads[u].cid # 0)
            => command_threads[t].cid # command_threads[u].cid

----------------------------------------------------------------------------
(* to_logical: the physical quantity in the step unit of the parameter,
   divided by the step value of the parameter and truncated toward zero.
   Every parameter of the hardware configurations of the model has the
   step value StepValue. *)

to_logical(in_step_unit, step_value) == int_div(in_step_unit, step_value)

\* what a setter did: the fields it left and the result it returned
StageOutcome(r) == [sc |-> r.w.sc, writes |-> r.w.writes, result |-> r.result]

(* C32: every setter of a physical quantity does what the logical setter
   does with to_logical of the quantity: stage position, velocity and
   acceleration, the sensor's two sampling intervals, and the
   spectrometer's integration time. *)
PhysicalSettersUseToLogical ==
    /\ \A operation \in DisplacementInputs :
          StageOutcome(set_absolute_position(World, operation.value, operation.unit))
             = StageOutcome(set_position(World,
                   to_logical(convert(operation.value, operation.unit, StepUnit),
                              StepValue)))
    /\ \A operation \in DisplacementInputs :
          LET quantity == [operation.value EXCEPT !.e = 0]
          IN  /\ StageOutcome(set_physical_velocity(World, quantity, VelocityStepUnit))
                    = StageOutcome(set_velocity(World, to_logical(quantity, StepValue)))
              /\ StageOutcome(set_physical_acceleration(World, quantity,
                                                        AccelerationStepUnit))
                    = StageOutcome(set_acceleration(World,
                                                    to_logical(quantity, StepValue)))
    /\ \A interval \in IntervalInputs, reply \in DeviceReplies :
          /\ set_absolute_temperature_sampling_interval(sensor, interval.value,
                                                        interval.unit, reply)
                = set_temperature_sampling_interval(sensor,
                      to_logical(sensor_convert(interval.value, interval.unit,
                                                SensorStepUnit), StepValue), reply)
          /\ set_absolute_humidity_sampling_interval(sensor, interval.value,
                                                     interval.unit, reply)
                = set_humidity_sampling_interval(sensor,
                      to_logical(sensor_convert(interval.value, interval.unit,
                                                SensorStepUnit), StepValue), reply)
    /\ \A operation \in IntegrationTimeInputs :
          set_integration_time_with_unit(spectrometer, operation.value, operation.unit)
             = set_integration_time(spectrometer,
                   to_logical(spectrometer_convert(operation.value, operation.unit,
                                                   IntegrationStepUnit), StepValue))

----------------------------------------------------------------------------
(* UnitConverter.convert on doubles.  A rule x * 1e0 returns x; the product
   of another rule is a double that may lie off the decimal product by
   error, unless the product is a whole number. *)

convert_double(quantity, unit_from, unit_to, error) ==
    IF rules[<<unit_from, unit_to>>] = 0
    THEN quantity
    ELSE rounded(convert(quantity, unit_from, unit_to), error)

SensorHumidityUnit == {"%RH", "RH", "g/(m^3)"}

\* the humidity rules of the sensor's UnitConverter: a unit to itself only
humidity_rules ==
    [p \in {<<u, u>> : u \in SensorHumidityUnit} |-> 0]

\* convert for two humidity units: the lookup raises KeyError without a rule
convert_humidity(quantity, unit_from, unit_to) ==
    IF <<unit_from, unit_to>> \in DOMAIN humidity_rules
    THEN quantity
    ELSE [raised |-> "KeyError"]

\* the values converted: whole numbers of a unit, and the stage's position
\* as a length in StepUnit
ConversionInputs ==
    {[m |-> v, e |-> 0, err |-> 0] : v \in PositionInputs}
        \cup {times_step(sc.position, StepValue)}

(* C33: converting a value into another unit of its dimension and back
   gives the value, and converting into its own unit gives the value. *)
ConversionInvolutive ==
    /\ \A units \in {StageDisplacementUnit, StageVelocityUnit, StageAccelerationUnit} :
          \A a \in units, b \in units, x \in ConversionInputs, r1 \in Errors, r2 \in Errors :
             /\ convert_double(convert_double(x, a, b, r1), b, a, r2) = x
             /\ convert_double(x, a, a, r1) = x
    /\ \A a \in SensorHumidityUnit, b \in SensorHumidityUnit, x \in ConversionInputs :
          /\ convert_humidity(convert_humidity(x, a, b), b, a) = x
          /\ convert_humidity(x, a, a) = x

----------------------------------------------------------------------------
(* POST / with operations of every shape: each field absent, logical or
   physical *)

\* a field left out, unchanged (a warning), changed, refused, or physical
OperationFields(unit) ==
    {None, Logical(default_value), Logical(maximum), Logical(maximum + 1),
     Physical([m |-> minimum * StepValue, e |-> 0, err |-> 0], unit)}

BatchOperations ==
    [acceleration : OperationFields(AccelerationStepUnit),
     velocity : OperationFields(VelocityStepUnit),
     position : OperationFields(StepUnit)]

NextOperation ==
    \/ \E operation \in BatchOperations :
          Idle /\ http_stage_operation(standard, operation)
    \/ \E i \in 1 .. MaxUpdates : broadcast_start(i)

SpecOperation == Init /\ [][NextOperation]_vars

\* the setter a field of an operation stands for, applied to w
SubAcceleration(w, field) ==
    CASE field.kind = "int" -> set_acceleration(w, field.value)
      [] field.kind = "physical" -> set_physical_acceleration(w, field.value, field.unit)
      [] OTHER -> Ret(w, "not applied")

SubVelocity(w, field) ==
    CASE field.kind = "int" -> set_velocity(w, field.value)
      [] field.kind = "physical" -> set_physical_velocity(w, field.value, field.unit)
      [] OTHER -> Ret(w, "not applied")

SubPosition(w, field) ==
    CASE field.kind = "int" -> set_position(w, field.value)
      [] field.kind = "physical" -> set_absolute_position(w, field.value, field.unit)
      [] OTHER -> Ret(w, "not applied")

(* C34: a batched operation applies acceleration, then velocity, then
   position, each at most once; what the sub-operations did stays done
   whatever a later one returns; the result is OK when every sub-operation
   applied returned OK and error_generic otherwise. *)
BatchedStageOperation ==
    [][\A operation \in BatchOperations :
          (http_response'.req = "POST /" /\ http_stage_operation(standard, operation))
             => LET a == SubAcceleration(World, operation.acceleration)
                    v == SubVelocity(a.w, operation.velocity)
                    p == SubPosition(v.w, operation.position)
                    applied == {a.result, v.result, p.result} \ {"not applied"}
                IN  /\ sc' = p.w.sc
                    /\ ser_writes' = p.w.writes
                    /\ tasks' = tasks \o NewTasks(p.w.updates)
                    /\ Len(p.w.updates) <= 3
                    /\ http_response'.result =
                          IF applied \subseteq {OK} THEN OK ELSE ERROR_GENERIC]_vars

\* a batch set the velocity, then its position was refused, and it was
\* answered error_generic
BatchedStageOperationWitness ==
    /\ http_response.req = "POST /"
    /\ http_response.result = ERROR_GENERIC
    /\ sc.velocity = maximum
    /\ sc.acceleration = default_value
    /\ last_call.op = "set_position"
    /\ last_call.result = SOFT_LIMIT_EXCEEDED
    /\ Len(tasks) = 1
----------------------------------------------------------------------------
(* C35: streaming flag consistency.  Whenever no stop is in progress,
   continuous_sampling_mode_running is true exactly when a Stream Reader
   thread has been started and has not ended; in particular the flag is
   false after a start that returned response_validation_failure or
   device_error. *)
StreamingFlagConsistency ==
    stop_pc = "idle" =>
        (continuous_sampling_mode_running <=> Alive(continuous_sampling_mode_thread))
----------------------------------------------------------------------------
(* The sensor's continuous sampling mode with one subscriber: the mode is
   turned on and off through POST /parameter, the device reports samples and
   the Stream Reader hands them to the broadcast. *)

NextReader ==
    \/ \E parameter_update \in StreamingUpdates, reply \in DeviceReplies :
          http_set_parameter(standard, parameter_update, reply)
    \/ sensor_stop_receive
    \/ sensor_stop_join_packets
    \/ sensor_stop_return
    \/ device_burst
    \/ reader_check
    \/ reader_receive
    \/ reader_receive_timeout
    \/ \E caught \in BOOLEAN : reader_handled(caught)
    \/ stop_pc = "idle" /\ ws_accept(1)
    \/ stop_pc = "idle" /\ ws_connect_receive(1, [kind |-> "object", token |-> standard])
    \/ stop_pc = "idle" /\ ws_connect_register(1)
    \/ stop_pc = "idle" /\ BroadcastSteps

SpecReader == InitStreaming /\ [][NextReader]_vars

(* C36: at most one Stream Reader.  A start issued through POST /parameter
   while continuous mode is running returns invalid_action, writes nothing
   to the device and leaves the reader thread as it is; a start that
   creates a reader finds no reader alive, so that no two readers are alive
   at the same time. *)
AtMostOneStreamReader ==
    [][\A reply \in DeviceReplies :
          (/\ http_response'.req = "POST /parameter"
           /\ http_set_parameter(standard, ParameterUpdate(None, None, "true"), reply))
             => IF continuous_sampling_mode_running
                THEN /\ sensor_last'.result = INVALID_ACTION
                     /\ sensor_writes' = sensor_writes
                     /\ continuous_sampling_mode_thread' = continuous_sampling_mode_thread
                     /\ continuous_sampling_mode_running'
                ELSE ~Alive(continuous_sampling_mode_thread)]_vars

\* a start was rejected with invalid_action while the reader is running
AtMostOneStreamReaderWitness ==
    /\ sensor_last.op = "start_continuous_sampling_mode"
    /\ sensor_last.result = INVALID_ACTION
    /\ Alive(continuous_sampling_mode_thread)
    /\ continuous_sampling_mode_running
    /\ sensor_writes = 1
----------------------------------------------------------------------------
(* Stopping continuous mode in front of a device that may answer
   stop_continuous_mode after command() has given up waiting (0.1 s). *)

\* the device's reply to stop_continuous_mode arrives after receive_frame
\* timed out: the framer's receiving thread queues it
device_late_reply ==
    /\ device = "sensor"
    /\ stop_pc = "join_packets"
    /\ sensor_last.reply = "None"
    /\ received_packets' = Append(received_packets, Frame("reply", sensor_writes))
    /\ sensor_last' = [sensor_last EXCEPT !.reply = "late"]
    /\ UNCHANGED <<stage_vars, http_response, ws_vars, tasks, sensor, sensor_writes,
                   spectrometer, device, client_vars, continuous_sampling_mode_running,
                   continuous_sampling_mode_thread, burst, sample_i, stop_pc,
                   send_switch, reader_frame, stopped>>

NextStop ==
    \/ NextReader
    \/ device_late_reply

\* stop_continuous_sampling_mode and the Stream Reader are running threads,
\* and the event loop runs the broadcasts once the handler has returned
SpecStop ==
    /\ InitStreaming
    /\ [][NextStop]_vars
    /\ WF_vars(sensor_stop_receive)
    /\ WF_vars(sensor_stop_join_packets)
    /\ WF_vars(sensor_stop_return)
    /\ WF_vars(reader_check)
    /\ WF_vars(reader_receive)
    /\ WF_vars(reader_receive_timeout)
    /\ WF_vars(\E caught \in BOOLEAN : reader_handled(caught))
    /\ WF_vars(stop_pc = "idle" /\ BroadcastSteps)

(* C37: stop terminates.  stop_continuous_sampling_mode with
   wait_for_all_messages_handled=True, once called, eventually returns OK:
   the wait for the received-packet queue and the join of the reader both
   complete, whether continuous mode is running, was never started or
   failed to start, and whether or not the device answers. *)
StopTerminates ==
    (stop_pc # "idle") ~> (stop_pc = "idle" /\ sensor_last.result = OK)
----------------------------------------------------------------------------
(* C38: the sensor's POST /parameter reports failures.  Whenever a
   POST /parameter that asked to start continuous mode has been answered
   with result OK, start_continuous_sampling_mode returned OK. *)
ParameterReportsFailures ==
    (/\ http_response.req = "POST /parameter"
     /\ http_response.status = 200
     /\ http_response.result = OK
     /\ sensor_last.op = "start_continuous_sampling_mode")
        => sensor_last.result = OK
----------------------------------------------------------------------------
(* The moves of RemoteLinearStage over the persistent channel, as the server
   receives and answers them. *)

\* RemoteLinearStage.set_position: the command handed to websocket_command
RemoteLinearStage_set_position(position) ==
    [position |-> Logical(position)]

\* RemoteLinearStage.set_absolute_position: the command handed to
\* websocket_command
RemoteLinearStage_set_absolute_position(position, unit) ==
    [absolute_position |-> Physical(position, unit)]

ClientCommands ==
    {RemoteLinearStage_set_position(position) : position \in PositionInputs}
        \cup {RemoteLinearStage_set_absolute_position(x.value, x.unit) :
                 x \in DisplacementInputs}

NextAgreement ==
    \/ \E s \in PairingSockets : ws_accept(s)
    \/ \E s \in PairingSockets :
          ws_connect_receive(s, [kind |-> "object", token |-> standard])
    \/ \E s \in PairingSockets : ws_connect_register(s)
    \/ \E s \in PairingSockets, received \in ClientCommands, cid \in 1 .. MaxResults :
          /\ Answered(s) = cid - 1
          /\ ws_run_receive(s, [kind |-> "operation", id |-> cid,
                                operation |-> StageOperation(received)])
    \/ \E s \in PairingSockets : ws_run_send(s)
    \/ BroadcastSteps

SpecAgreement == Init /\ [][NextAgreement]_vars

(* C39: client/server agreement for physical moves.  When the server
   acknowledges a set_absolute_position(x, unit) command of
   RemoteLinearStage with result OK, the stage's logical position is
   to_logical of x converted into the step unit. *)
AbsoluteMoveAgreement ==
    [][\A s \in PairingSockets, x \in DisplacementInputs, cid \in 1 .. MaxResults :
          (/\ ws_log'[s] # ws_log[s]
           /\ ws_run_receive(s, [kind |-> "operation", id |-> cid,
                                 operation |-> StageOperation(
                                     RemoteLinearStage_set_absolute_position(
                                         x.value, x.unit))]))
             => (ws_log'[s][Len(ws_log'[s])].result = OK
                    => sc'.position = to_logical(convert(x.value, x.unit, StepUnit),
                                                 StepValue))]_vars
----------------------------------------------------------------------------
(* The client's copy of the position.  Other clients move the stage a
   bounded number of times; the server pushes every move to the connections
   that have authenticated, and the state watchdog polls the position. *)

CacheTargets == {minimum, maximum}

\* set_position on the server for another client: the position changes and
\* {"position": target} is broadcast to the registered connections
server_moves(target) ==
    /\ sc.command_id < MaxCommands
    /\ target # sc.position
    /\ sc' = [sc EXCEPT !.position = target, !.command_id = @ + 1]
    /\ links' = [n \in DOMAIN links |->
                    IF links[n].state = "open" /\ links[n].served >= 1
                    THEN [links[n] EXCEPT !.incoming = Append(@, [position |-> target])]
                    ELSE links[n]]
    /\ UNCHANGED <<ser_writes, ser_response, last_call, http_response, ws_vars, tasks,
                   sensor, sensor_writes, spectrometer, device, sensor_last,
                   streaming_vars, watchdog_vars, websocket_handler_running,
                   websocket_handler_thread, websocket_connection, command_vars,
                   close_pc>>

NextCache ==
    \/ WatchdogSteps
    \/ HandlerSteps
    \/ ServerSteps
    \/ \E target \in CacheTargets : server_moves(target)

\* close is not called; the three threads and the server's answers proceed
SpecCache == Init /\ [][NextCache]_vars /\ ThreadsRun

(* C40: the state watchdog keeps the cache converging.  As long as close is
   not called the state watchdog does not end, whatever its polls come to,
   and once the server's position has stopped changing the client's copy of
   the position eventually equals it and stays equal. *)
CacheConverges ==
    <>[](~Exited(stage_state_watchdog_thread) /\ client_position = sc.position)

====
